---- MODULE Spec2Model ----
(***************************************************************************)
(* A state-machine model of the coordination layer of agentic-enterprise:  *)
(* the shared state store (infrastructure/shared_memory.py), the           *)
(* governance engine (infrastructure/governance.py), the audit trail       *)
(* (infrastructure/audit_logger.py), the conflict engine                   *)
(* (infrastructure/conflict_resolver.py) and the assembly of the decision  *)
(* package (ceo_orchestrator.py).                                          *)
(*                                                                         *)
(* Conventions.  An Optional value is a sequence: <<>> is None and <<v>>   *)
(* is the value v.  A Python dict is a TLA+ function whose DOMAIN is the   *)
(* key set, and a dict or list whose order matters is a sequence.  Ids are *)
(* the counters the code formats into its id strings.  Every component has *)
(* its own specification; the variables of the other components keep their *)
(* constructed values there.                                               *)
(***************************************************************************)
EXTENDS Integers, Sequences, FiniteSets, TLC

VARIABLES
    entries,            \* SharedMemory._entries: id -> MemoryEntry
    constraints,        \* SharedMemory._constraints: id -> Constraint
    counter,            \* SharedMemory._counter
    goals,              \* SharedMemory._goals: id -> CompanyGoal
    callbacks,          \* SharedMemory._callbacks, each with the entry ids it was called with
    issued,             \* history: the ids _generate_id returned, in order
    approval_requests,  \* Governance._approval_requests
    records,            \* AuditLogger._records: id -> DecisionRecord
    prompt_index,       \* AuditLogger._prompt_index
    agent_index,        \* AuditLogger._agent_index
    audit_counter,      \* AuditLogger._counter
    created,            \* history: the fields hashed when each record was logged
    tampered,           \* history: ids whose hashed fields were written out of band
    audit_callbacks,    \* AuditLogger._callbacks, each with the record ids it was called with
    conflicts,          \* ConflictResolver._conflicts
    resolved_input,     \* the conflict list of the last resolve_conflicts, as it left it
    unresolved,         \* the unresolved list resolve_conflicts returned
    resolution_summary, \* the summary resolve_conflicts returned
    agent_outputs,      \* the outputs the last detect_conflicts was given
    company_context,    \* the context the last detect_conflicts was given
    repeat_of,          \* history: what the run before this one produced, when
                        \* this detect_conflicts was given the same outputs and context
    store_lock,         \* SharedMemory._lock: None, or its owner and depth
    audit_lock,         \* AuditLogger._lock: None, or its owner and depth
    pc,                 \* per worker thread: the call it is in and where in it
    local,              \* per worker thread: the counter it read, then its id
    returned,           \* history: per worker thread, the ids its calls returned
    clock,              \* datetime.now()
    call,               \* the last operation called, with its arguments
    ret                 \* what it returned

storeVars == <<entries, constraints, counter, goals, callbacks, issued>>
govVars == <<approval_requests>>
auditVars == <<records, prompt_index, agent_index, audit_counter, created, tampered,
               audit_callbacks>>
conflictVars == <<conflicts, resolved_input, unresolved, resolution_summary, agent_outputs,
                  company_context, repeat_of>>
threadVars == <<store_lock, audit_lock, pc, local, returned>>
vars == <<entries, constraints, counter, goals, callbacks, issued, approval_requests,
          records, prompt_index, agent_index, audit_counter, created, tampered,
          audit_callbacks, conflicts, resolved_input, unresolved, resolution_summary,
          agent_outputs, company_context, repeat_of, store_lock, audit_lock, pc,
          local, returned, clock, call, ret>>

None == <<>>
Some(v) == <<v>>
\* Python truthiness of an Optional number: None and 0 are falsy.
Truthy(a) == a # None /\ a[1] # 0

EmptyMap == [x \in {} |-> 0]

RECURSIVE SeqSum(_)
SeqSum(s) == IF s = <<>> THEN 0 ELSE Head(s) + SeqSum(Tail(s))

\* The ids of a dict keyed by counter values, in insertion order.
RECURSIVE IdsUpTo(_, _)
IdsUpTo(n, S) ==
    IF n = 0 THEN <<>>
    ELSE IF n \in S THEN Append(IdsUpTo(n - 1, S), n) ELSE IdsUpTo(n - 1, S)

\* What an operation of one component leaves alone in the others.
StoreFrame == UNCHANGED <<govVars, auditVars, conflictVars, threadVars>>
GovFrame == UNCHANGED <<storeVars, auditVars, conflictVars, threadVars>>
AuditFrame == UNCHANGED <<storeVars, govVars, conflictVars, threadVars>>
ConflictFrame == UNCHANGED <<storeVars, govVars, auditVars, threadVars>>

\* The state every component is constructed in.
StoreInit ==
    /\ entries = EmptyMap /\ constraints = EmptyMap /\ counter = 0
    /\ goals = EmptyMap /\ callbacks = <<>> /\ issued = <<>>
GovInit == approval_requests = <<>>
AuditInit ==
    /\ records = EmptyMap /\ prompt_index = EmptyMap /\ agent_index = EmptyMap
    /\ audit_counter = 0 /\ created = EmptyMap /\ tampered = {}
    /\ audit_callbacks = <<>>
ConflictInit ==
    /\ conflicts = <<>> /\ resolved_input = <<>> /\ unresolved = <<>>
    /\ resolution_summary = None /\ agent_outputs = <<>>
    /\ company_context = None /\ repeat_of = None
\* The worker threads that call into one Store and one Audit Trail.
Workers == {"w1", "w2"}
Idle == [op |-> "none", at |-> "idle"]
ThreadInit ==
    /\ store_lock = None /\ audit_lock = None
    /\ pc = [w \in Workers |-> Idle]
    /\ local = [w \in Workers |-> 0]
    /\ returned = [w \in Workers |-> <<>>]
Init ==
    /\ StoreInit /\ GovInit /\ AuditInit /\ ConflictInit /\ ThreadInit
    /\ clock = 0 /\ call = [op |-> "init"] /\ ret = None

(***************************************************************************)
(* State Store                                                             *)
(***************************************************************************)
MaxEntries == 3
LimitValue == 2
ConstraintIds == {"CONST-001", "CONST-002"}

\* SharedMemory.store under the lock: _generate_id, the MemoryEntry, the insert,
\* the observers.
StoredEntry(id, type, source, content, priority, tags, expires_in_hours) ==
    [id |-> id, type |-> type, source |-> source, content |-> content,
     timestamp |-> clock, priority |-> priority, tags |-> tags,
     references |-> <<>>,
     expires_at |-> IF Truthy(expires_in_hours)
                    THEN Some(clock + expires_in_hours[1]) ELSE None]

\* Whether the `for callback in self._callbacks` loop goes on to the next callback
\* after this one: `try: callback(x) except Exception: pass` does, whatever the
\* callback did.
GoesOnAfter_UnlessRaised(callback) == callback.outcome # "raises"

GoesOnAfter(callback) == TRUE

\* The notification loop of store and of log_decision over the registered
\* callbacks, in registration order.  A callback has received x once it is called,
\* whether it then returns or raises an Exception.
RECURSIVE Notify(_, _)
Notify(cbs, x) ==
    IF cbs = <<>> THEN <<>>
    ELSE LET called == [Head(cbs) EXCEPT !.received = Append(@, x)]
         IN <<called>> \o (IF GoesOnAfter(Head(cbs)) THEN Notify(Tail(cbs), x)
                                                     ELSE Tail(cbs))

\* What the notification loop lets through to the caller: nothing when it went
\* through every callback, the Exception of the callback it stopped at otherwise.
RECURSIVE Propagated(_)
Propagated(cbs) ==
    IF cbs = <<>> THEN None
    ELSE IF GoesOnAfter(Head(cbs)) THEN Propagated(Tail(cbs))
    ELSE Some("Exception")

\* What a caller of store gets: the id, or the exception that came through.
Returned(cbs, value) ==
    IF Propagated(cbs) = None THEN value ELSE [raises |-> Propagated(cbs)[1]]

StoreEntry(type, source, content, priority, tags, expires_in_hours) ==
    /\ counter' = counter + 1
    /\ issued' = Append(issued, counter + 1)
    /\ callbacks' = Notify(callbacks, counter + 1)
    /\ entries' = entries @@
          ((counter + 1) :> StoredEntry(counter + 1, type, source, content,
                                        priority, tags, expires_in_hours))

store(type, source, content, priority, tags, expires_in_hours) ==
    /\ counter < MaxEntries
    /\ StoreEntry(type, source, content, priority, tags, expires_in_hours)
    /\ call' = [op |-> "store", type |-> type]
    /\ ret' = Returned(callbacks, Some(counter + 1))
    /\ UNCHANGED <<constraints, goals, clock>>
    /\ StoreFrame

\* SharedMemory.add_constraint: the constraint replaces any of the same id, and a
\* CONSTRAINT entry with a copy of its values is stored.
add_constraint(c) ==
    /\ counter < MaxEntries
    /\ constraints' = [k \in DOMAIN constraints \cup {c.id} |->
                          IF k = c.id THEN c ELSE constraints[k]]
    /\ StoreEntry("constraint", "system",
                  [constraint_id |-> c.id, category |-> c.category,
                   limit |-> c.limit_value, current |-> c.current_usage,
                   hard_limit |-> c.hard_limit],
                  IF c.hard_limit THEN "high" ELSE "medium",
                  <<"constraint", c.category>>, None)
    /\ call' = [op |-> "add_constraint", id |-> c.id]
    /\ ret' = None
    /\ UNCHANGED <<goals, clock>>
    /\ StoreFrame

\* A commit that leaves the usage of a hard-limited constraint alone from the limit on.
CommittedUsage_BelowLimitOnly(c, new_usage) ==
    IF c.hard_limit /\ new_usage >= c.limit_value THEN c.current_usage ELSE new_usage

\* The usage update_constraint_usage leaves in the constraint: the assignment of
\* line 295 comes before the hard-limit test of line 297.
CommittedUsage(c, new_usage) == new_usage

\* SharedMemory.update_constraint_usage.
update_constraint_usage(constraint_id, new_usage) ==
    /\ call' = [op |-> "update_constraint_usage", id |-> constraint_id,
                new_usage |-> new_usage]
    /\ UNCHANGED <<goals, clock>>
    /\ StoreFrame
    /\ IF constraint_id \notin DOMAIN constraints
       THEN ret' = TRUE /\ UNCHANGED storeVars
       ELSE LET c == constraints[constraint_id] IN
            /\ constraints' = [constraints EXCEPT ![constraint_id].current_usage =
                                  CommittedUsage(c, new_usage)]
            /\ IF c.hard_limit /\ new_usage > c.limit_value
               THEN /\ counter < MaxEntries
                    /\ StoreEntry("alert", "system",
                                  [alert_type |-> "constraint_violation",
                                   constraint_id |-> constraint_id,
                                   limit |-> c.limit_value, attempted |-> new_usage],
                                  "critical", <<"alert", "constraint_violation">>, None)
                    /\ ret' = FALSE
               ELSE /\ ret' = TRUE
                    /\ UNCHANGED <<entries, counter, callbacks, issued>>

\* SharedMemory.add_goal: the goal replaces any of the same id, and a GOAL entry
\* with a copy of its values is stored.
add_goal(goal) ==
    /\ counter < MaxEntries
    /\ goals' = [k \in DOMAIN goals \cup {goal.id} |->
                    IF k = goal.id THEN goal ELSE goals[k]]
    /\ StoreEntry("goal", "system",
                  [goal_id |-> goal.id, description |-> goal.description,
                   target |-> goal.target_value, current |-> goal.current_value,
                   unit |-> goal.unit, status |-> goal.status,
                   deadline |-> goal.deadline],
                  "high", <<"goal", goal.status>>, None)
    /\ call' = [op |-> "add_goal", id |-> goal.id]
    /\ ret' = None
    /\ UNCHANGED <<constraints, clock>>
    /\ StoreFrame

\* SharedMemory.register_callback.
MaxCallbacks == 2
Callback(outcome) == [outcome |-> outcome, received |-> <<>>]
SharedMemory_register_callback(callback) ==
    /\ Len(callbacks) < MaxCallbacks
    /\ callbacks' = Append(callbacks, callback)
    /\ call' = [op |-> "register_callback", of |-> "SharedMemory"]
    /\ ret' = None
    /\ UNCHANGED <<entries, constraints, counter, goals, issued, clock>>
    /\ StoreFrame

\* The expiry test with <= : an entry counts as expired at its expiry timestamp.
Expired_AtExpiry ==
    {id \in DOMAIN entries :
        /\ entries[id].expires_at # None
        /\ entries[id].expires_at[1] <= clock}

\* The ids clear_expired collects: expires_at set and earlier than now.
Expired == {id \in DOMAIN entries :
               /\ entries[id].expires_at # None
               /\ entries[id].expires_at[1] < clock}

\* A purge that rewinds the counter to the greatest id it left.
CounterAfterClear_Rewound(c, remaining) ==
    IF remaining = {} THEN 0
    ELSE CHOOSE m \in remaining : \A id \in remaining : id <= m

\* The counter after clear_expired: it deletes entries and leaves _counter alone.
CounterAfterClear(c, remaining) == c

\* SharedMemory.clear_expired.
clear_expired ==
    /\ entries' = [id \in DOMAIN entries \ Expired |-> entries[id]]
    /\ counter' = CounterAfterClear(counter, DOMAIN entries \ Expired)
    /\ call' = [op |-> "clear_expired"]
    /\ ret' = Cardinality(Expired)
    /\ UNCHANGED <<constraints, goals, callbacks, issued, clock>>
    /\ StoreFrame

\* datetime.now() moves on between two calls.
MaxClock == 2
tick ==
    /\ clock < MaxClock
    /\ clock' = clock + 1
    /\ call' = [op |-> "tick"]
    /\ ret' = None
    /\ UNCHANGED storeVars
    /\ StoreFrame

\* SharedMemory.get: the stored entry, or None.
get(entry_id) ==
    /\ call' = [op |-> "get", id |-> entry_id]
    /\ ret' = IF entry_id \in DOMAIN entries THEN Some(entries[entry_id]) ELSE None
    /\ UNCHANGED <<storeVars, clock>>
    /\ StoreFrame

\* The values of enum Priority are strings, and query compares the values with <,
\* which on strings is the order of the code points; the four values already
\* differ in their first character, whose code point is given here.
FirstCodePoint(value) ==
    CASE value = "critical" -> 99
      [] value = "high" -> 104
      [] value = "low" -> 108
      [] value = "medium" -> 109

\* value < min_value in the order low < medium < high < critical of the levels.
ValueLess_ByRank(value, min_value) ==
    LET rank == [v \in {"low", "medium", "high", "critical"} |->
                    CASE v = "low" -> 1 [] v = "medium" -> 2
                      [] v = "high" -> 3 [] v = "critical" -> 4]
    IN rank[value] < rank[min_value]

\* entry.priority.value < min_priority.value of line 211.
ValueLess(value, min_value) == FirstCodePoint(value) < FirstCodePoint(min_value)

\* Python's all(tag in entry.tags for tag in tags).
HasAllTags(entry, tags) ==
    \A i \in DOMAIN tags : \E j \in DOMAIN entry.tags : entry.tags[j] = tags[i]

\* The loop body of query: whether the entry is appended to the results.  A filter
\* that is None, empty or "" is falsy and skipped.
Selected(entry, type, source, tags, min_priority, since) ==
    /\ ~(entry.expires_at # None /\ entry.expires_at[1] < clock)
    /\ ~(type # None /\ entry.type # type[1])
    /\ ~(source # None /\ source[1] # "" /\ entry.source # source[1])
    /\ ~(tags # None /\ tags[1] # <<>> /\ ~HasAllTags(entry, tags[1]))
    /\ ~(min_priority # None /\ ValueLess(entry.priority, min_priority[1]))
    /\ ~(since # None /\ entry.timestamp < since[1])

\* sorted(results, key=lambda e: e.timestamp, reverse=True): a stable sort, so
\* entries of one timestamp keep the order they were found in.
RECURSIVE InsertNewestFirst(_, _)
InsertNewestFirst(sorted, e) ==
    IF sorted = <<>> THEN <<e>>
    ELSE IF Head(sorted).timestamp >= e.timestamp
         THEN <<Head(sorted)>> \o InsertNewestFirst(Tail(sorted), e)
         ELSE <<e>> \o sorted
RECURSIVE SortedNewestFirst(_)
SortedNewestFirst(results) ==
    IF results = <<>> THEN <<>>
    ELSE InsertNewestFirst(SortedNewestFirst(SubSeq(results, 1, Len(results) - 1)),
                           results[Len(results)])

\* The results list of query before the sort: _entries.values() in insertion
\* order, which is the order of the ids.
RECURSIVE QueryResults(_, _, _, _, _, _)
QueryResults(ids, type, source, tags, min_priority, since) ==
    IF ids = <<>> THEN <<>>
    ELSE (IF Selected(entries[Head(ids)], type, source, tags, min_priority, since)
          THEN <<entries[Head(ids)]>> ELSE <<>>)
         \o QueryResults(Tail(ids), type, source, tags, min_priority, since)

\* SharedMemory.query.
query(type, source, tags, min_priority, since) ==
    /\ call' = [op |-> "query", type |-> type, source |-> source, tags |-> tags,
                min_priority |-> min_priority, since |-> since]
    /\ ret' = SortedNewestFirst(QueryResults(IdsUpTo(counter, DOMAIN entries), type,
                                             source, tags, min_priority, since))
    /\ UNCHANGED <<storeVars, clock>>
    /\ StoreFrame

\* An update_goal_progress that also rewrites the GOAL entries of the goal.
EntriesAfterProgress_Rewritten(es, goal_id, new_value) ==
    [id \in DOMAIN es |->
        IF es[id].type = "goal" /\ es[id].content.goal_id = goal_id
        THEN [es[id] EXCEPT !.content.current = new_value]
        ELSE es[id]]

\* _entries after update_goal_progress: it writes the goal object only; the GOAL
\* entry holds copies of the goal's values taken by add_goal.
EntriesAfterProgress(es, goal_id, new_value) == es

\* SharedMemory.update_goal_progress.
update_goal_progress(goal_id, new_value) ==
    /\ goals' = IF goal_id \in DOMAIN goals
                THEN [goals EXCEPT ![goal_id].current_value = new_value]
                ELSE goals
    /\ entries' = EntriesAfterProgress(entries, goal_id, new_value)
    /\ call' = [op |-> "update_goal_progress", id |-> goal_id]
    /\ ret' = None
    /\ UNCHANGED <<constraints, counter, callbacks, issued, clock>>
    /\ StoreFrame

AlertCount(es) == Cardinality({i \in DOMAIN es : es[i].type = "alert"})

\* The constraints a caller adds: usage within the limit.
NewConstraints ==
    [id : ConstraintIds, category : {"budget"}, limit_value : {LimitValue},
     current_usage : {0, LimitValue}, hard_limit : BOOLEAN]

StoreNext ==
    \/ \E c \in NewConstraints : add_constraint(c)
    \/ \E id \in ConstraintIds, u \in 0..(LimitValue + 1) :
          update_constraint_usage(id, u)
    \/ store("context", "test", [message |-> "m"], "medium", <<>>, None)

SpecStore == Init /\ [][StoreNext]_vars

\* C1: for a hard-limited constraint and new_usage > limit, update_constraint_usage
\* returns False, adds exactly one Alert entry, and leaves the usage as it was.
C1_HardLimitRejected ==
    [][(/\ call'.op = "update_constraint_usage"
        /\ call'.id \in DOMAIN constraints
        /\ constraints[call'.id].hard_limit
        /\ call'.new_usage > constraints[call'.id].limit_value)
       => (/\ ret' = FALSE
           /\ AlertCount(entries') = AlertCount(entries) + 1
           /\ constraints'[call'.id].current_usage =
                  constraints[call'.id].current_usage)]_vars

\* C2: in every reachable state a hard-limited constraint's usage is at most its limit.
C2_HardUsageWithinLimit ==
    \A id \in DOMAIN constraints :
        constraints[id].hard_limit =>
            constraints[id].current_usage <= constraints[id].limit_value

\* C18: update_constraint_usage on a known constraint succeeds whenever it is not
\* the case that the constraint is hard-limited and new_usage > limit (a soft
\* constraint with any usage, a hard one with new_usage <= limit): it returns
\* true, commits new_usage as the current usage, and adds no Alert entry.
C18_UsageCommitted ==
    [][(/\ call'.op = "update_constraint_usage"
        /\ call'.id \in DOMAIN constraints
        /\ ~(constraints[call'.id].hard_limit
                /\ call'.new_usage > constraints[call'.id].limit_value))
       => (/\ ret' = TRUE
           /\ constraints'[call'.id].current_usage = call'.new_usage
           /\ entries' = entries
           /\ AlertCount(entries') = AlertCount(entries))]_vars

\* A hard-limited constraint was taken to exactly its limit, and a soft one
\* beyond its limit.
C18_Witness ==
    /\ call.op = "update_constraint_usage"
    /\ ret = TRUE
    /\ call.id \in DOMAIN constraints
    /\ constraints[call.id].hard_limit
    /\ call.new_usage = constraints[call.id].limit_value
    /\ constraints[call.id].current_usage = call.new_usage
    /\ \E id \in DOMAIN constraints :
           /\ ~constraints[id].hard_limit
           /\ constraints[id].current_usage > constraints[id].limit_value
    /\ AlertCount(entries) = 0

\* The goals and the constraint a caller adds, and the lifetimes it asks for.
NewGoals ==
    [id : {"GOAL-001"}, description : {"g"}, target_value : {10},
     current_value : {0}, unit : {"USD"}, status : {"active", "achieved"},
     deadline : {1}]
HardConstraint ==
    [id |-> "CONST-001", category |-> "budget", limit_value |-> LimitValue,
     current_usage |-> 0, hard_limit |-> TRUE]
Lifetimes == {None, Some(1)}

IdsNext ==
    \/ \E e \in Lifetimes : store("context", "test", [message |-> "m"], "medium", <<>>, e)
    \/ \E g \in NewGoals : add_goal(g)
    \/ add_constraint(HardConstraint)
    \/ \E u \in {0, LimitValue + 1} : update_constraint_usage("CONST-001", u)
    \/ clear_expired
    \/ tick

SpecIds == Init /\ [][IdsNext]_vars

\* C20: over store, add_goal, add_constraint, update_constraint_usage and
\* clear_expired, every newly created entry is filed under an id greater than
\* every id assigned before it, whether or not entries were purged in between.
C20_IdsIncreasingNeverReused ==
    [][/\ Len(issued') > Len(issued) =>
             /\ Len(issued') = Len(issued) + 1
             /\ \A j \in DOMAIN issued : issued'[Len(issued')] > issued[j]
             /\ DOMAIN entries' = DOMAIN entries \cup {issued'[Len(issued')]}
       /\ \A id \in DOMAIN entries' \ DOMAIN entries :
             /\ Len(issued') > Len(issued)
             /\ id = issued'[Len(issued')]
       /\ \A id \in DOMAIN entries \cap DOMAIN entries' : entries'[id] = entries[id]]_vars

\* An entry is created after an earlier entry was purged.
C20_Witness ==
    /\ call.op \in {"store", "add_goal", "add_constraint", "update_constraint_usage"}
    /\ issued # <<>>
    /\ issued[Len(issued)] \in DOMAIN entries
    /\ entries[issued[Len(issued)]].timestamp = clock
    /\ \E i \in DOMAIN issued :
          /\ issued[i] \notin DOMAIN entries
          /\ issued[i] < issued[Len(issued)]

ExpiryNext ==
    \/ \E e \in Lifetimes : store("context", "test", [message |-> "m"], "medium", <<>>, e)
    \/ query(None, None, None, None, None)
    \/ \E id \in 1..MaxEntries : get(id)
    \/ clear_expired
    \/ tick

SpecExpiry == Init /\ [][ExpiryNext]_vars

\* The entry is past its expiry timestamp.
PastExpiry(e) == e.expires_at # None /\ e.expires_at[1] < clock

\* C21: a query returns no entry past its expiry and returns its results newest
\* first; get still returns such an entry; only clear_expired removes entries, and
\* it removes exactly those past their expiry, returns their number and leaves the
\* others as they were.
C21_ExpiredHiddenUntilSwept ==
    [][/\ call'.op = "query" =>
             /\ \A i \in DOMAIN ret' : ~PastExpiry(ret'[i])
             /\ \A i, j \in DOMAIN ret' :
                   i < j => ret'[i].timestamp >= ret'[j].timestamp
             /\ \A id \in DOMAIN entries :
                   ~PastExpiry(entries[id]) => \E i \in DOMAIN ret' : ret'[i] = entries[id]
       /\ (call'.op = "get" /\ call'.id \in DOMAIN entries) =>
             ret' = Some(entries[call'.id])
       /\ call'.op = "clear_expired" =>
             /\ DOMAIN entries' = {id \in DOMAIN entries : ~PastExpiry(entries[id])}
             /\ \A id \in DOMAIN entries' : entries'[id] = entries[id]
             /\ ret' = Cardinality({id \in DOMAIN entries : PastExpiry(entries[id])})
       /\ call'.op # "clear_expired" => DOMAIN entries \subseteq DOMAIN entries']_vars

\* A query that leaves out an entry past its expiry, still stored, and returns
\* entries of two timestamps.
C21_Witness ==
    /\ call.op = "query"
    /\ \E id \in DOMAIN entries : PastExpiry(entries[id])
    /\ \E i, j \in DOMAIN ret : ret[i].timestamp > ret[j].timestamp

\* The values of enum Priority.
Priorities == {"low", "medium", "high", "critical"}

PriorityNext ==
    \/ \E p \in Priorities : store("context", "test", [message |-> "m"], p, <<>>, None)
    \/ \E p \in Priorities : query(None, None, None, Some(p), None)
    \/ query(None, None, None, None, None)

SpecPriority == Init /\ [][PriorityNext]_vars

\* C22: query(min_priority = p) returns exactly the entries not past expiry whose
\* priority is at or above p in the order low < medium < high < critical.
C22_MinPriorityByRank ==
    [][(call'.op = "query" /\ call'.min_priority # None) =>
          {ret'[i] : i \in DOMAIN ret'} =
             {entries[id] : id \in
                 {k \in DOMAIN entries :
                     /\ ~PastExpiry(entries[k])
                     /\ ~ValueLess_ByRank(entries[k].priority,
                                          call'.min_priority[1])}}]_vars

\* One goal and one constraint added and updated among plain entries.
ActiveGoal ==
    [id |-> "GOAL-001", description |-> "g", target_value |-> 10, current_value |-> 0,
     unit |-> "USD", status |-> "active", deadline |-> 1]

EntriesNext ==
    \/ \E e \in Lifetimes : store("context", "test", [message |-> "m"], "medium", <<>>, e)
    \/ add_goal(ActiveGoal)
    \/ add_constraint(HardConstraint)
    \/ update_goal_progress("GOAL-001", 5)
    \/ update_constraint_usage("CONST-001", LimitValue + 1)
    \/ query(None, None, None, None, None)
    \/ \E id \in 1..MaxEntries : get(id)
    \/ clear_expired
    \/ tick

SpecEntries == Init /\ [][EntriesNext]_vars

\* C30: no Store operation changes a stored entry, whatever it does to the goal or
\* the constraint the entry was made from; an entry leaves the store only through
\* clear_expired; and get(id) returns the entry as it was stored.
C30_EntriesImmutable ==
    [][/\ \A id \in DOMAIN entries :
             /\ id \in DOMAIN entries' => entries'[id] = entries[id]
             /\ id \notin DOMAIN entries' => call'.op = "clear_expired"
       /\ (call'.op = "get" /\ call'.id \in DOMAIN entries) =>
             ret' = Some(entries[call'.id])]_vars

\* get returns the GOAL entry with the value the goal had when it was added, after
\* the goal's progress was updated.
C30_Witness ==
    /\ call.op = "get"
    /\ ret # None
    /\ ret[1].type = "goal"
    /\ ret[1].content.goal_id \in DOMAIN goals
    /\ goals[ret[1].content.goal_id].current_value # ret[1].content.current

(***************************************************************************)
(* Governance Engine                                                       *)
(***************************************************************************)
MaxRequests == 2
MaxConditions == 1
BudgetAutoLimit == 50000
HiringAutoLimit == 3
VendorAutoLimit == 25000

\* Governance._auto_approval_limits.get(request_type, 0)
AutoApprovalLimit(request_type) ==
    CASE request_type = "budget" -> BudgetAutoLimit
      [] request_type = "hiring" -> HiringAutoLimit
      [] request_type = "vendor_contract" -> VendorAutoLimit
      [] OTHER -> 0

\* The test of request_approval that decides auto-approval: `amount and amount <= auto_limit`.
AutoApproves(amount, auto_limit) == Truthy(amount) /\ amount[1] <= auto_limit

\* Governance.request_approval: the request is appended and returned.
request_approval(requester, request_type, amount) ==
    LET request_id == Len(approval_requests) + 1
        auto == AutoApproves(amount, AutoApprovalLimit(request_type))
        req == [request_id |-> request_id, requester |-> requester,
                approver |-> IF auto THEN "system" ELSE "ceo_orchestrator",
                request_type |-> request_type, amount |-> amount,
                details |-> {}, conditions |-> <<>>,
                status |-> IF auto THEN "auto_approved" ELSE "pending"]
    IN /\ Len(approval_requests) < MaxRequests
       /\ approval_requests' = Append(approval_requests, req)
       /\ call' = [op |-> "request_approval", request_type |-> request_type,
                   amount |-> amount]
       /\ ret' = Some(req)
       /\ UNCHANGED clock
       /\ GovFrame

\* The first request with the id, as the loops of approve, reject and escalate find it.
FindRequest(request_id) ==
    IF \E i \in DOMAIN approval_requests : approval_requests[i].request_id = request_id
    THEN Some(CHOOSE i \in DOMAIN approval_requests :
                 /\ approval_requests[i].request_id = request_id
                 /\ \A j \in 1..(i - 1) : approval_requests[j].request_id # request_id)
    ELSE None

\* The status a transition call leaves in the request it found: the code assigns
\* it whatever the request's status was.
Transition(req, status) == status

\* Governance.approve
approve(request_id, approver, cond) ==
    LET f == FindRequest(request_id) IN
    /\ call' = [op |-> "approve", request_id |-> request_id]
    /\ UNCHANGED clock
    /\ GovFrame
    /\ IF f = None
       THEN ret' = None /\ UNCHANGED approval_requests
       ELSE LET req == approval_requests[f[1]]
                new == [req EXCEPT !.status = Transition(req, "approved"),
                                   !.approver = approver,
                                   !.conditions = IF cond # <<>> THEN @ \o cond ELSE @]
            IN /\ Len(new.conditions) <= MaxConditions
               /\ approval_requests' = [approval_requests EXCEPT ![f[1]] = new]
               /\ ret' = Some(new)

\* Governance.reject
reject(request_id, approver, reason) ==
    LET f == FindRequest(request_id) IN
    /\ call' = [op |-> "reject", request_id |-> request_id]
    /\ UNCHANGED clock
    /\ GovFrame
    /\ IF f = None
       THEN ret' = None /\ UNCHANGED approval_requests
       ELSE LET req == approval_requests[f[1]]
                new == [req EXCEPT !.status = Transition(req, "rejected"),
                                   !.approver = approver,
                                   !.details = @ \cup {<<"rejection_reason", reason>>}]
            IN /\ approval_requests' = [approval_requests EXCEPT ![f[1]] = new]
               /\ ret' = Some(new)

\* Governance.escalate
escalate(request_id, reason) ==
    LET f == FindRequest(request_id) IN
    /\ call' = [op |-> "escalate", request_id |-> request_id]
    /\ UNCHANGED clock
    /\ GovFrame
    /\ IF f = None
       THEN ret' = None /\ UNCHANGED approval_requests
       ELSE LET req == approval_requests[f[1]]
                new == [req EXCEPT !.status = Transition(req, "escalated"),
                                   !.details = @ \cup {<<"escalation_reason", reason>>},
                                   !.approver = "ceo"]
            IN /\ approval_requests' = [approval_requests EXCEPT ![f[1]] = new]
               /\ ret' = Some(new)

\* Governance._agent_permissions as _initialize_permissions sets it: can_approve
\* and spending_limit, the limit None standing for float('inf').
AgentPermissions ==
    [ceo_orchestrator |->
        [can_approve |-> {"budget", "hiring", "policy_change", "strategy"},
         spending_limit |-> None],
     sales_agent |->
        [can_approve |-> {"discount_under_10_percent"}, spending_limit |-> Some(25000)],
     marketing_agent |->
        [can_approve |-> {"campaign_under_budget"}, spending_limit |-> Some(100000)],
     finance_agent |->
        [can_approve |-> {"budget_reallocation_under_50k"}, spending_limit |-> Some(0)],
     operations_agent |->
        [can_approve |-> {"vendor_under_25k"}, spending_limit |-> Some(25000)],
     support_agent |->
        [can_approve |-> {"refund_under_500"}, spending_limit |-> Some(500)],
     hr_agent |->
        [can_approve |-> {"job_posting", "interview_process"},
         spending_limit |-> Some(0)]]

\* perms = self._agent_permissions.get(agent, {}) with the defaults of its .get calls.
PermsOf(agent) ==
    IF agent \in DOMAIN AgentPermissions THEN AgentPermissions[agent]
    ELSE [can_approve |-> {}, spending_limit |-> Some(0)]

\* action_mapping.get(action, action)
RequiredPermission(action) ==
    CASE action = "budget_request" -> "budget"
      [] action = "hiring_request" -> "hiring"
      [] action = "vendor_contract" -> "vendor_contract"
      [] action = "campaign_launch" -> "campaign_under_budget"
      [] action = "discount" -> "discount_under_10_percent"
      [] action = "refund" -> "refund_under_500"
      [] OTHER -> action

\* `amount and amount > perms.get("spending_limit", 0)`
OverSpendingLimit(amount, limit) ==
    Truthy(amount) /\ limit # None /\ amount[1] > limit[1]

Denied(reason) ==
    [allowed |-> FALSE, requires_approval |-> TRUE, approver |-> "ceo_orchestrator",
     reason |-> reason]

\* A check that looks at the agent's authority before the spending limit.
Permission_AuthorityFirst(agent, action, amount) ==
    LET perms == PermsOf(agent)
        required == RequiredPermission(action)
    IN IF required \in perms.can_approve
       THEN IF AutoApproves(amount, AutoApprovalLimit(required))
            THEN [allowed |-> TRUE, requires_approval |-> FALSE, auto_approved |-> TRUE,
                  reason |-> "Under auto-approval threshold"]
            ELSE [allowed |-> TRUE, requires_approval |-> FALSE,
                  reason |-> "Agent has authority"]
       ELSE IF OverSpendingLimit(amount, perms.spending_limit)
       THEN Denied("Amount exceeds agent spending limit")
       ELSE Denied("Agent does not have permission")

\* What check_permission returns.
Permission(agent, action, amount) ==
    LET perms == PermsOf(agent)
        required == RequiredPermission(action)
    IN IF OverSpendingLimit(amount, perms.spending_limit)
       THEN Denied("Amount exceeds agent spending limit")
       ELSE IF required \in perms.can_approve
       THEN IF AutoApproves(amount, AutoApprovalLimit(required))
            THEN [allowed |-> TRUE, requires_approval |-> FALSE, auto_approved |-> TRUE,
                  reason |-> "Under auto-approval threshold"]
            ELSE [allowed |-> TRUE, requires_approval |-> FALSE,
                  reason |-> "Agent has authority"]
       ELSE Denied("Agent does not have permission")

\* Governance.check_permission
check_permission(agent, action, amount) ==
    /\ call' = [op |-> "check_permission", agent |-> agent, action |-> action,
                amount |-> amount]
    /\ ret' = Permission(agent, action, amount)
    /\ UNCHANGED <<govVars, clock>>
    /\ GovFrame

\* The agents, actions and amounts check_permission is called with: every agent
\* of the table and one outside it, every mapped action and two unmapped ones,
\* every spending limit with its neighbours.
PermissionAgents == DOMAIN AgentPermissions \cup {"unknown_agent"}
PermissionActions ==
    {"budget_request", "hiring_request", "vendor_contract", "campaign_launch",
     "discount", "refund", "job_posting", "strategy"}
PermissionAmounts ==
    {None, Some(0), Some(1), Some(500), Some(501), Some(25000), Some(25001),
     Some(100000), Some(100001)}

PermissionNext ==
    \E agent \in PermissionAgents, action \in PermissionActions,
       amount \in PermissionAmounts : check_permission(agent, action, amount)

SpecPermission == Init /\ [][PermissionNext]_vars

\* The spending limit the table gives a worker, 0 for a worker it does not know.
ExceedsLimitOf(agent, amount) ==
    /\ amount # None
    /\ PermsOf(agent).spending_limit # None
    /\ amount[1] > PermsOf(agent).spending_limit[1]

\* C31: whenever the amount exceeds the worker's spending limit, check_permission
\* denies, requires approval and names the CEO as approver, whatever the action
\* and whatever the worker may approve itself.
C31_OverLimitDenied ==
    [][(call'.op = "check_permission" /\ ExceedsLimitOf(call'.agent, call'.amount)) =>
          /\ ret'.allowed = FALSE
          /\ ret'.requires_approval = TRUE
          /\ ret'.approver = "ceo_orchestrator"]_vars

\* A worker denied over its limit for an action it has the authority for.
C31_Witness ==
    /\ call.op = "check_permission"
    /\ ExceedsLimitOf(call.agent, call.amount)
    /\ RequiredPermission(call.action) \in PermsOf(call.agent).can_approve
    /\ ret.allowed = FALSE
    /\ ret.approver = "ceo_orchestrator"

\* The request types and amounts called with: each threshold, its neighbours, zero
\* and no amount; "policy_change" has no threshold (its limit is the default 0).
RequestTypes == {"budget", "hiring", "policy_change"}
AmountsFor(request_type) ==
    LET t == AutoApprovalLimit(request_type) IN
    IF t = 0 THEN {None, Some(1)}
    ELSE {None, Some(0), Some(t - 1), Some(t), Some(t + 1)}

GovNext ==
    \/ \E t \in RequestTypes : \E a \in AmountsFor(t) :
          request_approval("sales_agent", t, a)
    \/ \E id \in 1..(MaxRequests + 1), c \in {<<>>, <<"cond">>} : approve(id, "cfo", c)
    \/ \E id \in 1..(MaxRequests + 1) : reject(id, "cfo", "reason")
    \/ \E id \in 1..(MaxRequests + 1) : escalate(id, "reason")

SpecGov == Init /\ [][GovNext]_vars

\* C3: request_approval(type, amount) creates the request auto_approved iff amount is
\* strictly below the type's auto-approval threshold, and pending otherwise (so
\* amount = threshold gives pending).
C3_AutoApprovedIffBelowThreshold ==
    call.op = "request_approval" =>
        LET below == call.amount # None
                     /\ call.amount[1] < AutoApprovalLimit(call.request_type)
        IN ret[1].status = IF below THEN "auto_approved" ELSE "pending"

\* C4: once a request is approved, rejected or escalated, no later approve, reject
\* or escalate call changes its status.
TerminalStatuses == {"approved", "rejected", "escalated"}
C4_TerminalStatusIsFinal ==
    [][\A i \in DOMAIN approval_requests :
          approval_requests[i].status \in TerminalStatuses
              => approval_requests'[i].status = approval_requests[i].status]_vars

(***************************************************************************)
(* Audit Trail                                                             *)
(***************************************************************************)
MaxRecords == 2

RecordIds == IdsUpTo(audit_counter, DOMAIN records)

\* Python's `x in list`.
InList(x, l) == \E i \in DOMAIN l : l[i] = x
ListSet(l) == {l[i] : i \in DOMAIN l}

\* hashlib.sha256(content).hexdigest()[:16], taken to be collision-free on the
\* contents the model builds.
Sha256Prefix(content) == [sha256_16 |-> content]

\* The fields DecisionRecord.compute_hash formats into the hashed content.
HashedFields(r) == <<r.id, r.timestamp, r.agent_name, r.decision>>

\* A compute_hash that also covers the outcome field.
compute_hash_WithOutcome(r) == Sha256Prefix(HashedFields(r) \o <<r.outcome>>)

\* DecisionRecord.compute_hash
compute_hash(r) == Sha256Prefix(HashedFields(r))

\* Tiers with strict breakpoints: a score on a boundary falls in the lower tier.
ConfidenceTier_BoundaryBelow(score) ==
    IF score > 90 THEN "very_high"
    ELSE IF score > 80 THEN "high"
    ELSE IF score > 65 THEN "medium"
    ELSE IF score > 50 THEN "low"
    ELSE "very_low"

\* The confidence tier log_decision derives from the score (in hundredths).
ConfidenceTier(score) ==
    IF score >= 90 THEN "very_high"
    ELSE IF score >= 80 THEN "high"
    ELSE IF score >= 65 THEN "medium"
    ELSE IF score >= 50 THEN "low"
    ELSE "very_low"

\* An index that files the newest id first.
IndexAppend_NewestFirst(index, key, id) ==
    [k \in DOMAIN index \cup {key} |->
        IF k = key
        THEN (IF key \in DOMAIN index THEN <<id>> \o index[key] ELSE <<id>>)
        ELSE index[k]]

\* dict.setdefault(key, []).append(id), as log_decision updates its indexes.
IndexAppend(index, key, id) ==
    [k \in DOMAIN index \cup {key} |->
        IF k = key
        THEN (IF key \in DOMAIN index THEN Append(index[key], id) ELSE <<id>>)
        ELSE index[k]]

\* The DecisionRecord log_decision constructs, with its hash.
LoggedRecord(id, agent_name, decision_type, prompt_id, decision, rationale, confidence_score, required_approvals, escalated_to) ==
    LET r0 == [id |-> id, timestamp |-> clock, agent_name |-> agent_name,
               decision_type |-> decision_type, prompt_id |-> prompt_id,
               decision |-> decision, rationale |-> rationale,
               confidence |-> ConfidenceTier(confidence_score),
               confidence_score |-> confidence_score,
               required_approvals |-> required_approvals,
               obtained_approvals |-> <<>>, escalated_to |-> escalated_to,
               outcome |-> None, outcome_timestamp |-> None,
               outcome_notes |-> None, hash |-> ""]
    IN [r0 EXCEPT !.hash = compute_hash(r0)]

\* AuditLogger.log_decision; the returned record is the stored object, given here
\* by its id.
log_decision(agent_name, decision_type, prompt_id, decision, rationale, confidence_score, required_approvals, escalated_to) ==
    LET id == audit_counter + 1
        record == LoggedRecord(id, agent_name, decision_type, prompt_id, decision,
                               rationale, confidence_score, required_approvals,
                               escalated_to)
    IN /\ audit_counter < MaxRecords
       /\ audit_counter' = id
       /\ records' = records @@ (id :> record)
       /\ prompt_index' = IndexAppend(prompt_index, prompt_id, id)
       /\ agent_index' = IndexAppend(agent_index, agent_name, id)
       /\ created' = created @@ (id :> HashedFields(record))
       /\ call' = [op |-> "log_decision"]
       /\ audit_callbacks' = Notify(audit_callbacks, id)
       /\ ret' = Returned(audit_callbacks, Some(id))
       /\ UNCHANGED <<tampered, clock>>
       /\ AuditFrame

\* An update_outcome that files the notes under the rationale.
WithOutcome_NotesAsRationale(r, outcome, notes) ==
    [r EXCEPT !.outcome = Some(outcome), !.outcome_timestamp = Some(clock),
              !.rationale = notes]

\* The record update_outcome leaves behind.
WithOutcome(r, outcome, notes) ==
    [r EXCEPT !.outcome = Some(outcome), !.outcome_timestamp = Some(clock),
              !.outcome_notes = notes]

\* AuditLogger.update_outcome
update_outcome(record_id, outcome, notes) ==
    /\ call' = [op |-> "update_outcome", id |-> record_id]
    /\ UNCHANGED <<prompt_index, agent_index, audit_counter, created, tampered,
                   audit_callbacks, clock>>
    /\ AuditFrame
    /\ IF record_id \notin DOMAIN records
       THEN ret' = FALSE /\ UNCHANGED records
       ELSE /\ records' = [records EXCEPT ![record_id] = WithOutcome(@, outcome, notes)]
            /\ ret' = TRUE

\* An add_approval that appends the approver whether or not it is in the list.
WithApproval_Always(r, approver) ==
    [r EXCEPT !.obtained_approvals = Append(@, approver)]

\* The record add_approval leaves behind.
WithApproval(r, approver) ==
    IF InList(approver, r.obtained_approvals) THEN r
    ELSE [r EXCEPT !.obtained_approvals = Append(@, approver)]

\* AuditLogger.add_approval
add_approval(record_id, approver) ==
    /\ call' = [op |-> "add_approval", id |-> record_id, approver |-> approver]
    /\ UNCHANGED <<prompt_index, agent_index, audit_counter, created, tampered,
                   audit_callbacks, clock>>
    /\ AuditFrame
    /\ IF record_id \notin DOMAIN records
       THEN ret' = FALSE /\ UNCHANGED records
       ELSE /\ records' = [records EXCEPT ![record_id] = WithApproval(@, approver)]
            /\ ret' = TRUE

\* [self._records[rid] for rid in record_ids if rid in self._records], the records
\* given by their ids.
IndexedRecords(index, key) ==
    LET Stored(rid) == rid \in DOMAIN records
    IN SelectSeq(IF key \in DOMAIN index THEN index[key] ELSE <<>>, Stored)

\* AuditLogger.get_records_by_prompt
get_records_by_prompt(prompt_id) ==
    /\ call' = [op |-> "get_records_by_prompt", prompt_id |-> prompt_id]
    /\ ret' = IndexedRecords(prompt_index, prompt_id)
    /\ UNCHANGED <<auditVars, clock>>
    /\ AuditFrame

\* AuditLogger.get_records_by_agent
get_records_by_agent(agent_name) ==
    /\ call' = [op |-> "get_records_by_agent", agent_name |-> agent_name]
    /\ ret' = IndexedRecords(agent_index, agent_name)
    /\ UNCHANGED <<auditVars, clock>>
    /\ AuditFrame

\* AuditLogger.verify_integrity, as a function of the state.
Integrity(record_id) ==
    IF record_id \notin DOMAIN records THEN FALSE
    ELSE records[record_id].hash = compute_hash(records[record_id])

\* AuditLogger.verify_integrity
verify_integrity(record_id) ==
    /\ call' = [op |-> "verify_integrity", id |-> record_id]
    /\ ret' = Integrity(record_id)
    /\ UNCHANGED <<auditVars, clock>>
    /\ AuditFrame

\* A pending test that looks for records with no approval at all.
IsPending_NothingObtained(r) ==
    /\ r.required_approvals # <<>>
    /\ r.obtained_approvals = <<>>

\* The test of get_pending_approvals.
IsPending(r) ==
    /\ r.required_approvals # <<>>
    /\ ListSet(r.required_approvals) \ ListSet(r.obtained_approvals) # {}

PendingApprovals ==
    LET Keep(id) == IsPending(records[id]) IN SelectSeq(RecordIds, Keep)

\* AuditLogger.get_pending_approvals
get_pending_approvals ==
    /\ call' = [op |-> "get_pending_approvals"]
    /\ ret' = PendingApprovals
    /\ UNCHANGED <<auditVars, clock>>
    /\ AuditFrame

\* The report generate_report builds from the records it selected.
ReportOf(ids) ==
    IF ids = <<>> THEN [total_decisions |-> 0]
    ELSE LET Pend(id) == records[id].required_approvals # <<>>
                         /\ records[id].obtained_approvals = <<>>
             Esc(id) == records[id].escalated_to # None
             types == {records[ids[i]].decision_type : i \in DOMAIN ids}
             tiers == {records[ids[i]].confidence : i \in DOMAIN ids}
         IN [total_decisions |-> Len(ids),
             date_range |-> <<CHOOSE t \in {records[ids[i]].timestamp : i \in DOMAIN ids} :
                                 \A i \in DOMAIN ids : t <= records[ids[i]].timestamp,
                              CHOOSE t \in {records[ids[i]].timestamp : i \in DOMAIN ids} :
                                 \A i \in DOMAIN ids : t >= records[ids[i]].timestamp>>,
             by_type |-> [t \in types |->
                             LET K(id) == records[id].decision_type = t
                             IN Len(SelectSeq(ids, K))],
             by_confidence |-> [c \in tiers |->
                             LET K(id) == records[id].confidence = c
                             IN Len(SelectSeq(ids, K))],
             confidence_sum |-> SeqSum([i \in DOMAIN ids |-> records[ids[i]].confidence_score]),
             pending_approvals |-> Len(SelectSeq(ids, Pend)),
             escalated |-> Len(SelectSeq(ids, Esc)),
             agents |-> {records[ids[i]].agent_name : i \in DOMAIN ids}]

\* The records generate_report selects: each filter applies when its argument is truthy.
ReportSelection(start_date, end_date, agent) ==
    LET Keep(id) ==
            /\ start_date # None => records[id].timestamp >= start_date[1]
            /\ end_date # None => records[id].timestamp <= end_date[1]
            /\ agent # None => records[id].agent_name = agent[1]
    IN SelectSeq(RecordIds, Keep)

\* AuditLogger.generate_report
generate_report(start_date, end_date, agent) ==
    /\ call' = [op |-> "generate_report", agent |-> agent]
    /\ ret' = ReportOf(ReportSelection(start_date, end_date, agent))
    /\ UNCHANGED <<auditVars, clock>>
    /\ AuditFrame

\* A caller holding the record object (get_record returns the stored object) writes
\* one of its content fields out of band.
Tamper(record_id, field, value) ==
    /\ record_id \in DOMAIN records
    /\ records[record_id][field] # value
    /\ records' = [records EXCEPT ![record_id][field] = value]
    /\ tampered' = IF field \in {"id", "timestamp", "agent_name", "decision"}
                   THEN tampered \cup {record_id} ELSE tampered
    /\ call' = [op |-> "tamper", id |-> record_id]
    /\ ret' = None
    /\ UNCHANGED <<prompt_index, agent_index, audit_counter, created, audit_callbacks, clock>>
    /\ AuditFrame

AuditAgents == {"finance_agent", "sales_agent"}

AuditNext ==
    \/ \E a \in AuditAgents, req \in {<<>>, <<"CFO">>} :
          log_decision(a, "recommendation", "PROMPT-1", "d1", "r1", 85, req, None)
    \/ \E id \in 1..MaxRecords : update_outcome(id, "success", Some("n1"))
    \/ \E id \in 1..MaxRecords : add_approval(id, "CFO")
    \/ \E id \in 1..MaxRecords : verify_integrity(id)
    \/ get_pending_approvals
    \/ \E a \in {None, Some("finance_agent")} : generate_report(None, None, a)

SpecAudit == Init /\ [][AuditNext]_vars

\* Out-of-band writes: two hashed fields and one that is not hashed.
TamperWrites == {<<"decision", "d2">>, <<"timestamp", 1>>, <<"rationale", "r2">>}

AuditTamperNext ==
    \/ log_decision("finance_agent", "recommendation", "PROMPT-1", "d1", "r1", 85,
                    <<"CFO">>, None)
    \/ \E id \in 1..MaxRecords : update_outcome(id, "success", Some("n1"))
    \/ \E id \in 1..MaxRecords : add_approval(id, "CFO")
    \/ \E id \in 1..MaxRecords : verify_integrity(id)
    \/ \E id \in 1..MaxRecords, w \in TamperWrites : Tamper(id, w[1], w[2])

SpecAuditTamper == Init /\ [][AuditTamperNext]_vars

\* C5: verify_integrity is true for a record from log_decision on and through every
\* update_outcome and add_approval; it is false only for a record whose id,
\* timestamp, worker name or decision text differs from what was hashed at creation.
C5_IntegrityFalseOnlyIfHashedFieldChanged ==
    \A id \in DOMAIN records :
        /\ id \notin tampered => Integrity(id)
        /\ ~Integrity(id) => HashedFields(records[id]) # created[id]

\* C5 witness: an untampered record with an outcome and an approval verifies, while
\* a record whose hashed field was rewritten does not.
C5_Witness ==
    /\ \E id \in DOMAIN records :
          /\ id \notin tampered /\ records[id].outcome # None
          /\ records[id].obtained_approvals # <<>> /\ Integrity(id)
    /\ \E id \in DOMAIN records : id \in tampered /\ ~Integrity(id)

\* C6: no Audit Trail operation changes the id, decision text, rationale or stored
\* hash of an existing record, or removes the record.
C6_ContentNeverMutated ==
    [][\A id \in DOMAIN records :
          /\ id \in DOMAIN records'
          /\ records'[id].id = records[id].id
          /\ records'[id].decision = records[id].decision
          /\ records'[id].rationale = records[id].rationale
          /\ records'[id].hash = records[id].hash]_vars

\* C6 witness: a report is generated over a record that has had its outcome updated
\* and an approval added.
C6_Witness ==
    /\ call.op = "generate_report"
    /\ \E id \in DOMAIN records :
          records[id].outcome # None /\ records[id].obtained_approvals # <<>>

\* AuditLogger.register_callback.
AuditLogger_register_callback(callback) ==
    /\ Len(audit_callbacks) < MaxCallbacks
    /\ audit_callbacks' = Append(audit_callbacks, callback)
    /\ call' = [op |-> "register_callback", of |-> "AuditLogger"]
    /\ ret' = None
    /\ UNCHANGED <<records, prompt_index, agent_index, audit_counter, created,
                   tampered, clock>>
    /\ AuditFrame

\* The observers a caller registers: one that returns and one that raises an
\* Exception every time it is called.
Callbacks == {Callback("returns"), Callback("raises")}

ObserversNext ==
    \/ \E cb \in Callbacks : SharedMemory_register_callback(cb)
    \/ store("context", "test", [message |-> "m"], "medium", <<>>, None)
    \/ \E cb \in Callbacks : AuditLogger_register_callback(cb)
    \/ log_decision("finance_agent", "recommendation", "PROMPT-1", "d1", "r1", 85,
                    <<>>, None)

SpecObservers == Init /\ [][ObserversNext]_vars

\* Every callback of the list was called with x by the step, once.
AllCalledWith(before, after, x) ==
    /\ Len(after) = Len(before)
    /\ \A i \in DOMAIN before :
          /\ after[i].outcome = before[i].outcome
          /\ after[i].received = Append(before[i].received, x)

\* C19: whatever the registered observers do, raise or return, a store call calls
\* every one of them with the new entry, inserts the entry and returns its id, and
\* no exception reaches the caller; the same for log_decision and its callbacks.
C19_ObserverExceptionSwallowed ==
    [][/\ call'.op = "store" =>
             /\ AllCalledWith(callbacks, callbacks', counter + 1)
             /\ Propagated(callbacks) = None
             /\ counter + 1 \notin DOMAIN entries
             /\ counter + 1 \in DOMAIN entries'
             /\ ret' = Some(counter + 1)
       /\ call'.op = "log_decision" =>
             /\ AllCalledWith(audit_callbacks, audit_callbacks', audit_counter + 1)
             /\ Propagated(audit_callbacks) = None
             /\ audit_counter + 1 \notin DOMAIN records
             /\ audit_counter + 1 \in DOMAIN records'
             /\ ret' = Some(audit_counter + 1)]_vars

\* A raising callback registered ahead of a returning one, both called with x.
RaisingAheadCalled(cbs, x) ==
    \E i, j \in DOMAIN cbs :
        /\ i < j
        /\ cbs[i].outcome = "raises"
        /\ cbs[j].outcome = "returns"
        /\ cbs[i].received # <<>> /\ cbs[i].received[Len(cbs[i].received)] = x
        /\ cbs[j].received # <<>> /\ cbs[j].received[Len(cbs[j].received)] = x

\* A store that returned its id after a raising observer, and a record logged
\* after a raising callback.
C19_Witness ==
    /\ call.op = "store"
    /\ ret = Some(counter)
    /\ counter \in DOMAIN entries
    /\ RaisingAheadCalled(callbacks, counter)
    /\ audit_counter \in DOMAIN records
    /\ RaisingAheadCalled(audit_callbacks, audit_counter)

\* The approvals a decision is logged with, and the approvers who sign.
RequiredLists == {<<>>, <<"CFO">>, <<"CFO", "CEO">>}
Approvers == {"CFO", "COO"}

ApprovalsNext ==
    \/ \E req \in RequiredLists :
          log_decision("finance_agent", "recommendation", "PROMPT-1", "d1", "r1", 85,
                       req, None)
    \/ \E id \in 1..MaxRecords, a \in Approvers : add_approval(id, a)
    \/ get_pending_approvals

SpecApprovals == Init /\ [][ApprovalsNext]_vars

\* The list has no element twice.
NoDuplicates(l) == \A i, j \in DOMAIN l : l[i] = l[j] => i = j

\* C23: after add_approval(id, approver) on a known record the approver is in the
\* record's obtained approvals, a second add_approval(id, approver) changes
\* nothing, and no record ever lists an approver twice.
C23_AddApprovalIdempotent ==
    [][/\ \A id \in DOMAIN records' : NoDuplicates(records'[id].obtained_approvals)
       /\ (call'.op = "add_approval" /\ call'.id \in DOMAIN records) =>
             /\ InList(call'.approver, records'[call'.id].obtained_approvals)
             /\ ret' = TRUE
             /\ InList(call'.approver, records[call'.id].obtained_approvals)
                   => records' = records
             /\ \A id \in DOMAIN records \ {call'.id} : records'[id] = records[id]]_vars

\* The same approval recorded a second time, after another approver's.
C23_Witness ==
    /\ call.op = "add_approval"
    /\ call.id \in DOMAIN records
    /\ ret = TRUE
    /\ Len(records[call.id].obtained_approvals) = 2
    /\ records[call.id].obtained_approvals[1] = call.approver

\* The ids of a list are in creation order.
Ascending(ids) == \A i, j \in DOMAIN ids : i < j => ids[i] < ids[j]

\* C24 as stated: get_pending_approvals returns exactly the records whose set of
\* required approvals is a strict superset of their set of obtained approvals.
C24_PendingIsStrictSuperset ==
    [][call'.op = "get_pending_approvals" =>
          ListSet(ret') =
             {id \in DOMAIN records :
                 /\ ListSet(records[id].obtained_approvals)
                       \subseteq ListSet(records[id].required_approvals)
                 /\ ListSet(records[id].obtained_approvals)
                       # ListSet(records[id].required_approvals)}]_vars

\* C24, amended: get_pending_approvals returns, in creation order, exactly the
\* records with a required approver who is not among the obtained approvers,
\* whoever else has approved.
C24_PendingIsMissingRequired ==
    [][call'.op = "get_pending_approvals" =>
          /\ Ascending(ret')
          /\ ListSet(ret') =
                {id \in DOMAIN records :
                    \E i \in DOMAIN records[id].required_approvals :
                        ~InList(records[id].required_approvals[i],
                                records[id].obtained_approvals)}]_vars

\* A pending record signed by someone who was not required, and a record with
\* every required approval that is not pending.
C24_Witness ==
    /\ call.op = "get_pending_approvals"
    /\ \E id \in ListSet(ret) :
          /\ InList("COO", records[id].obtained_approvals)
          /\ ~InList("COO", records[id].required_approvals)
    /\ \E id \in DOMAIN records :
          /\ id \notin ListSet(ret)
          /\ records[id].required_approvals # <<>>

\* Confidence scores in hundredths: each breakpoint, the value just below it, and
\* the ends of the scale.
Scores == {0, 49, 50, 64, 65, 79, 80, 89, 90, 100}

TiersNext ==
    \E score \in Scores :
        log_decision("finance_agent", "recommendation", "PROMPT-1", "d1", "r1", score,
                     <<>>, None)

SpecTiers == Init /\ [][TiersNext]_vars

\* The tier the breakpoints assign to a score.
TierCalledFor(score) ==
    CASE score >= 90 -> "very_high"
      [] score >= 80 /\ score < 90 -> "high"
      [] score >= 65 /\ score < 80 -> "medium"
      [] score >= 50 /\ score < 65 -> "low"
      [] score < 50 -> "very_low"

IndexesNext ==
    \/ \E a \in AuditAgents, d \in {"PROMPT-1", "PROMPT-2"} :
          log_decision(a, "recommendation", d, "d1", "r1", 85, <<"CFO">>, None)
    \/ \E id \in 1..MaxRecords : update_outcome(id, "success", Some("n1"))
    \/ \E id \in 1..MaxRecords : add_approval(id, "CFO")
    \/ \E d \in {"PROMPT-1", "PROMPT-2", "PROMPT-3"} : get_records_by_prompt(d)
    \/ \E a \in AuditAgents \cup {"hr_agent"} : get_records_by_agent(a)

SpecIndexes == Init /\ [][IndexesNext]_vars

\* C29: get_records_by_prompt(d) and get_records_by_agent(w) return exactly the
\* records logged with directive d and by worker w, in creation order; and no step
\* removes a record or changes the id, the directive, the worker or the creation
\* time it was logged with.
C29_RecordsKeepOrderAndIds ==
    [][/\ call'.op = "get_records_by_prompt" =>
             /\ Ascending(ret')
             /\ ListSet(ret') =
                   {id \in DOMAIN records : records[id].prompt_id = call'.prompt_id}
       /\ call'.op = "get_records_by_agent" =>
             /\ Ascending(ret')
             /\ ListSet(ret') =
                   {id \in DOMAIN records : records[id].agent_name = call'.agent_name}
       /\ \A id \in DOMAIN records :
             /\ id \in DOMAIN records'
             /\ records'[id].id = id
             /\ records'[id].prompt_id = records[id].prompt_id
             /\ records'[id].agent_name = records[id].agent_name
             /\ records'[id].timestamp = records[id].timestamp
       /\ \A id \in DOMAIN records' \ DOMAIN records :
             \A old \in DOMAIN records : id > old]_vars

\* Two records of one directive returned after one of them got an outcome.
C29_Witness ==
    /\ call.op = "get_records_by_prompt"
    /\ Len(ret) = 2
    /\ \E i \in DOMAIN ret : records[ret[i]].outcome # None

(***************************************************************************)
(* Concurrent callers of store and log_decision                            *)
(*                                                                         *)
(* Each worker thread runs one call at a time, statement by statement: the *)
(* `with self._lock` of the method, _generate_id's read and write of the   *)
(* counter, the insert, the return.  Threads interleave between statements.*)
(***************************************************************************)
\* threading.RLock: free, or held by its owner, who may take it again.
Acquirable_Always(lock, w) == TRUE

Acquirable(lock, w) == IF lock = None THEN TRUE ELSE lock[1].owner = w

Acquired(lock, w) ==
    IF lock = None THEN Some([owner |-> w, depth |-> 1])
    ELSE Some([owner |-> w, depth |-> lock[1].depth + 1])
Released(lock) ==
    IF lock = None THEN None
    ELSE IF lock[1].depth > 1 THEN Some([lock[1] EXCEPT !.depth = @ - 1]) ELSE None

\* The calls of a kind begun so far: those that returned and those under way.
CallsBegun(kind) ==
    Cardinality({<<w, i>> \in Workers \X (1..(MaxEntries + MaxRecords)) :
                    i \in DOMAIN returned[w] /\ returned[w][i].op = kind})
    + Cardinality({w \in Workers : pc[w].op = kind})

\* d[k] = v on a dict.
DictSet(d, k, v) == [x \in DOMAIN d \cup {k} |-> IF x = k THEN v ELSE d[x]]

ThreadStep(w) == call' = [op |-> "thread_step", worker |-> w] /\ ret' = None

\* store: `with self._lock:` (line 142).
store_acquire(w) ==
    /\ pc[w] = Idle
    /\ CallsBegun("store") < MaxEntries
    /\ Acquirable(store_lock, w)
    /\ store_lock' = Acquired(store_lock, w)
    /\ pc' = [pc EXCEPT ![w] = [op |-> "store", at |-> "generate_id"]]
    /\ ThreadStep(w)
    /\ UNCHANGED <<storeVars, govVars, auditVars, conflictVars, audit_lock, local,
                   returned, clock>>

\* _generate_id: `with self._lock:` again, and the read of `self._counter += 1`.
store_read_counter(w) ==
    /\ pc[w].op = "store" /\ pc[w].at = "generate_id"
    /\ Acquirable(store_lock, w)
    /\ store_lock' = Acquired(store_lock, w)
    /\ local' = [local EXCEPT ![w] = counter]
    /\ pc' = [pc EXCEPT ![w].at = "write_counter"]
    /\ ThreadStep(w)
    /\ UNCHANGED <<storeVars, govVars, auditVars, conflictVars, audit_lock, returned,
                   clock>>

\* _generate_id: the write of `self._counter += 1`, the id, the inner release.
store_write_counter(w) ==
    /\ pc[w].op = "store" /\ pc[w].at = "write_counter"
    /\ counter' = local[w] + 1
    /\ issued' = Append(issued, local[w] + 1)
    /\ local' = [local EXCEPT ![w] = local[w] + 1]
    /\ store_lock' = Released(store_lock)
    /\ pc' = [pc EXCEPT ![w].at = "insert"]
    /\ ThreadStep(w)
    /\ UNCHANGED <<entries, constraints, goals, callbacks, govVars, auditVars,
                   conflictVars, audit_lock, returned, clock>>

\* store: the MemoryEntry, `self._entries[entry_id] = entry`, the callbacks.
store_insert(w) ==
    /\ pc[w].op = "store" /\ pc[w].at = "insert"
    /\ entries' = DictSet(entries, local[w],
                          StoredEntry(local[w], "agent_output", w, [message |-> "m"],
                                      "medium", <<>>, None))
    /\ callbacks' = Notify(callbacks, local[w])
    /\ pc' = [pc EXCEPT ![w].at = "return"]
    /\ ThreadStep(w)
    /\ UNCHANGED <<constraints, counter, goals, issued, govVars, auditVars,
                   conflictVars, store_lock, audit_lock, local, returned, clock>>

\* store: `return entry_id`, leaving the with block.
store_return(w) ==
    /\ pc[w].op = "store" /\ pc[w].at = "return"
    /\ store_lock' = Released(store_lock)
    /\ returned' = [returned EXCEPT ![w] = Append(@, [op |-> "store", id |-> local[w]])]
    /\ pc' = [pc EXCEPT ![w] = Idle]
    /\ ThreadStep(w)
    /\ UNCHANGED <<storeVars, govVars, auditVars, conflictVars, audit_lock, local,
                   clock>>

\* log_decision: `with self._lock:` (line 197).
log_decision_acquire(w) ==
    /\ pc[w] = Idle
    /\ CallsBegun("log_decision") < MaxRecords
    /\ Acquirable(audit_lock, w)
    /\ audit_lock' = Acquired(audit_lock, w)
    /\ pc' = [pc EXCEPT ![w] = [op |-> "log_decision", at |-> "generate_id"]]
    /\ ThreadStep(w)
    /\ UNCHANGED <<storeVars, govVars, auditVars, conflictVars, store_lock, local,
                   returned, clock>>

\* AuditLogger._generate_id: `with self._lock:` again, and the read of the counter.
log_decision_read_counter(w) ==
    /\ pc[w].op = "log_decision" /\ pc[w].at = "generate_id"
    /\ Acquirable(audit_lock, w)
    /\ audit_lock' = Acquired(audit_lock, w)
    /\ local' = [local EXCEPT ![w] = audit_counter]
    /\ pc' = [pc EXCEPT ![w].at = "write_counter"]
    /\ ThreadStep(w)
    /\ UNCHANGED <<storeVars, govVars, auditVars, conflictVars, store_lock, returned,
                   clock>>

\* AuditLogger._generate_id: the write of the counter, the id, the inner release.
log_decision_write_counter(w) ==
    /\ pc[w].op = "log_decision" /\ pc[w].at = "write_counter"
    /\ audit_counter' = local[w] + 1
    /\ local' = [local EXCEPT ![w] = local[w] + 1]
    /\ audit_lock' = Released(audit_lock)
    /\ pc' = [pc EXCEPT ![w].at = "insert"]
    /\ ThreadStep(w)
    /\ UNCHANGED <<storeVars, govVars, records, prompt_index, agent_index, created,
                   tampered, audit_callbacks, conflictVars, store_lock, returned, clock>>

\* log_decision: the DecisionRecord, its hash, `self._records[record.id] = record`,
\* the two indexes, the callbacks.
log_decision_insert(w) ==
    LET id == local[w]
        record == LoggedRecord(id, w, "recommendation", "PROMPT-1", "d1", "r1", 85,
                               <<>>, None)
    IN /\ pc[w].op = "log_decision" /\ pc[w].at = "insert"
       /\ records' = DictSet(records, id, record)
       /\ prompt_index' = IndexAppend(prompt_index, "PROMPT-1", id)
       /\ agent_index' = IndexAppend(agent_index, w, id)
       /\ created' = DictSet(created, id, HashedFields(record))
       /\ audit_callbacks' = Notify(audit_callbacks, id)
       /\ pc' = [pc EXCEPT ![w].at = "return"]
       /\ ThreadStep(w)
       /\ UNCHANGED <<storeVars, govVars, audit_counter, tampered, conflictVars,
                      store_lock, audit_lock, local, returned, clock>>

\* log_decision: `return record`, leaving the with block.
log_decision_return(w) ==
    /\ pc[w].op = "log_decision" /\ pc[w].at = "return"
    /\ audit_lock' = Released(audit_lock)
    /\ returned' = [returned EXCEPT ![w] =
                       Append(@, [op |-> "log_decision", id |-> local[w]])]
    /\ pc' = [pc EXCEPT ![w] = Idle]
    /\ ThreadStep(w)
    /\ UNCHANGED <<storeVars, govVars, auditVars, conflictVars, store_lock, local,
                   clock>>

ThreadsNext ==
    \E w \in Workers :
        \/ store_acquire(w)
        \/ store_read_counter(w)
        \/ store_write_counter(w)
        \/ store_insert(w)
        \/ store_return(w)
        \/ log_decision_acquire(w)
        \/ log_decision_read_counter(w)
        \/ log_decision_write_counter(w)
        \/ log_decision_insert(w)
        \/ log_decision_return(w)

SpecThreads == Init /\ [][ThreadsNext]_vars

\* The ids the calls of a kind returned, over all workers.
ReturnedCalls(kind) ==
    {<<w, i>> \in Workers \X (1..(MaxEntries + MaxRecords)) :
        i \in DOMAIN returned[w] /\ returned[w][i].op = kind}
ReturnedIds(kind) == {returned[c[1]][c[2]].id : c \in ReturnedCalls(kind)}

\* C27: whatever the interleaving of the workers' calls, the n store calls that
\* returned got n pairwise distinct ids and left n entries, each under its id and
\* from its caller; the same for log_decision and the records.
C27_ConcurrentCallsDistinct ==
    /\ Cardinality(ReturnedIds("store")) = Cardinality(ReturnedCalls("store"))
    /\ \A c \in ReturnedCalls("store") :
          LET id == returned[c[1]][c[2]].id IN
          id \in DOMAIN entries /\ entries[id].id = id /\ entries[id].source = c[1]
    /\ Cardinality(ReturnedIds("log_decision")) = Cardinality(ReturnedCalls("log_decision"))
    /\ \A c \in ReturnedCalls("log_decision") :
          LET id == returned[c[1]][c[2]].id IN
          id \in DOMAIN records /\ records[id].id = id /\ records[id].agent_name = c[1]

\* Both workers have returned from a store and from a log_decision of their own,
\* their calls interleaved in some order.
C27_Witness ==
    /\ \A w \in Workers : pc[w] = Idle
    /\ \A w \in Workers :
          /\ \E i \in DOMAIN returned[w] : returned[w][i].op = "store"
          /\ \E i \in DOMAIN returned[w] : returned[w][i].op = "log_decision"

(***************************************************************************)
(* Conflict Engine                                                         *)
(*                                                                         *)
(* agent_outputs, a dict in insertion order, is a sequence of              *)
(* [agent, output] with distinct agents; an output is a dict.  A conflict  *)
(* list is a sequence, and a Conflict object is known by its position in   *)
(* the list that holds it.  Budget limits are even, so that the code's     *)
(* limit * 0.5 is the integer limit \div 2.                                *)
(***************************************************************************)
\* dict.get(key, default)
Get(d, k, default) == IF k \in DOMAIN d THEN d[k] ELSE default

\* The distinct elements of a list in the order they first occur (the key order of
\* a dict filled while iterating the list).
RECURSIVE FirstOccurrences(_)
FirstOccurrences(l) ==
    IF l = <<>> THEN <<>>
    ELSE LET front == FirstOccurrences(SubSeq(l, 1, Len(l) - 1))
             last == l[Len(l)]
         IN IF InList(last, front) THEN front ELSE Append(front, last)

\* list(agent_outputs.keys())
AgentNames(outs) == [i \in DOMAIN outs |-> outs[i].agent]

\* agent_name.replace("_agent", "")
StripAgentSuffix(agent_name) ==
    CASE agent_name = "marketing_agent" -> "marketing"
      [] agent_name = "finance_agent" -> "finance"
      [] agent_name = "sales_agent" -> "sales"
      [] OTHER -> agent_name

\* The requests _detect_budget_conflict collects, each with its department.
BudgetRequests(outs) ==
    LET Has(o) == "budget_request" \in DOMAIN o.output
        with == SelectSeq(outs, Has)
    IN [i \in DOMAIN with |->
           LET req == with[i].output["budget_request"] IN
           [department |-> Get(req, "department", StripAgentSuffix(with[i].agent)),
            request |-> [agent |-> with[i].agent, amount |-> Get(req, "amount", 0),
                         purpose |-> Get(req, "purpose", "")]]]

\* A detection that takes the whole limit to be available.
AvailableBudget_NothingSpent(budget_limit) == budget_limit

\* The budget the detection takes to be available: the limit less an assumed 50%
\* spent (budget_limit * 0.5, exact here because every limit given is even).
AvailableBudget(budget_limit) == budget_limit - (budget_limit \div 2)

\* The entry of conflicts_detected for one department.
DepartmentDemand(dept, reqs, ctx) ==
    LET Mine(r) == r.department = dept
        mine == SelectSeq(reqs, Mine)
        requests == [i \in DOMAIN mine |-> mine[i].request]
        total_requested == SeqSum([i \in DOMAIN requests |-> requests[i].amount])
        available == AvailableBudget(Get(ctx.budget_limits, dept, 0))
    IN [department |-> dept, requested |-> total_requested, available |-> available,
        shortfall |-> total_requested - available, requests |-> requests]

\* ConflictResolver._detect_budget_conflict: None, or the one budget conflict.
detect_budget_conflict(outs, ctx) ==
    LET reqs == BudgetRequests(outs)
        depts == FirstOccurrences([i \in DOMAIN reqs |-> reqs[i].department])
        demands == [i \in DOMAIN depts |-> DepartmentDemand(depts[i], reqs, ctx)]
        Over(d) == d.requested > d.available
        conflicts_detected == SelectSeq(demands, Over)
    IN IF conflicts_detected = <<>> THEN None
       ELSE Some([conflict_id |-> "CONF-001",
                  conflict_type |-> "budget_overallocation",
                  agents_involved |-> AgentNames(outs),
                  description |-> <<"Budget overrun detected", conflicts_detected[1].shortfall>>,
                  agent_recommendations |-> [budget_conflicts |-> conflicts_detected],
                  severity |-> "high", resolution |-> None, resolution_details |-> None])

\* The dependency and deliverable lists _detect_timeline_conflict collects.
RECURSIVE Dependencies(_)
Dependencies(outs) ==
    IF outs = <<>> THEN <<>>
    ELSE LET o == Head(outs)
             tl == Get(o.output, "timeline", EmptyMap)
             deps == Get(tl, "depends_on", <<>>)
         IN [i \in DOMAIN deps |->
                [agent |-> o.agent, depends_on |-> deps[i],
                 needed_by |-> Get(tl, "completion_date", None)]]
            \o Dependencies(Tail(outs))

RECURSIVE Deliverables(_)
Deliverables(outs) ==
    IF outs = <<>> THEN <<>>
    ELSE LET o == Head(outs)
             tl == Get(o.output, "timeline", EmptyMap)
             dels == Get(tl, "deliverables", <<>>)
         IN [i \in DOMAIN dels |->
                [agent |-> o.agent, deliverable |-> dels[i].name,
                 delivery_date |-> Get(dels[i], "date", None)]]
            \o Deliverables(Tail(outs))

\* ConflictResolver._detect_timeline_conflict
detect_timeline_conflict(outs) ==
    LET deliverables == Deliverables(outs)
        NotFound(dep) == ~\E i \in DOMAIN deliverables :
                             deliverables[i].deliverable = dep.depends_on
        unmet == SelectSeq(Dependencies(outs), NotFound)
    IN IF unmet = <<>> THEN None
       ELSE Some([conflict_id |-> "CONF-002",
                  conflict_type |-> "timeline_conflict",
                  agents_involved |-> [i \in DOMAIN unmet |-> unmet[i].agent],
                  description |-> <<"Unmet dependencies", [i \in DOMAIN unmet |-> unmet[i].depends_on]>>,
                  agent_recommendations |-> [unmet_dependencies |-> unmet],
                  severity |-> "medium", resolution |-> None, resolution_details |-> None])

\* strategies.get(agent_name, {}) over the outputs that carry a "strategy".
StrategyOf(outs, agent_name) ==
    IF \E i \in DOMAIN outs : outs[i].agent = agent_name /\ "strategy" \in DOMAIN outs[i].output
    THEN (CHOOSE o \in ListSet(outs) : o.agent = agent_name).output["strategy"]
    ELSE EmptyMap

\* The contradictions _detect_strategic_misalignment looks for.
Contradictions(outs) ==
    LET marketing_strat == StrategyOf(outs, "marketing_agent")
        finance_strat == StrategyOf(outs, "finance_agent")
        sales_strat == StrategyOf(outs, "sales_agent")
        cac == IF /\ Get(marketing_strat, "cac_direction", "") = "increase"
                  /\ Get(finance_strat, "cac_direction", "") = "decrease"
               THEN <<[issue |-> "CAC strategy conflict",
                       marketing_position |-> "Increase CAC for higher quality leads",
                       finance_position |-> "Decrease CAC to improve unit economics"]>>
               ELSE <<>>
        pricing == IF /\ Get(sales_strat, "pricing_strategy", "") = "aggressive_discount"
                      /\ Get(finance_strat, "margin_protection", FALSE) = TRUE
                   THEN <<[issue |-> "Pricing strategy conflict",
                           sales_position |-> "Aggressive discounting to win deals",
                           finance_position |-> "Protect margins, minimize discounting"]>>
                   ELSE <<>>
    IN cac \o pricing

\* ConflictResolver._detect_strategic_misalignment
detect_strategic_misalignment(outs) ==
    LET Has(o) == "strategy" \in DOMAIN o.output
        contradictions == Contradictions(outs)
    IN IF contradictions = <<>> THEN None
       ELSE Some([conflict_id |-> "CONF-003",
                  conflict_type |-> "strategic_misalignment",
                  agents_involved |-> AgentNames(SelectSeq(outs, Has)),
                  description |-> <<"Contradictory strategic directions detected">>,
                  agent_recommendations |-> [contradictions |-> contradictions],
                  severity |-> "critical", resolution |-> None, resolution_details |-> None])

ContentionThreshold == 3

\* The requests _detect_resource_contention collects, each with its resource name.
RECURSIVE ResourceRequests(_)
ResourceRequests(outs) ==
    IF outs = <<>> THEN <<>>
    ELSE LET o == Head(outs)
             rs == Get(o.output, "resource_requests", <<>>)
         IN [i \in DOMAIN rs |->
                [resource |-> Get(rs[i], "resource", None),
                 request |-> [agent |-> o.agent, amount |-> Get(rs[i], "amount", 1),
                              priority |-> Get(rs[i], "priority", "medium")]]]
            \o ResourceRequests(Tail(outs))

\* The entry of contentions for one resource, with the code's test for it.
ResourceDemand(resource, reqs) ==
    LET Mine(r) == r.resource = resource
        mine == SelectSeq(reqs, Mine)
        requests == [i \in DOMAIN mine |-> mine[i].request]
    IN [resource |-> resource,
        total_requested |-> SeqSum([i \in DOMAIN requests |-> requests[i].amount]),
        requests |-> requests]

IsContention(d) == Len(d.requests) > 1 /\ d.total_requested > ContentionThreshold

\* ConflictResolver._detect_resource_contention; agents_involved is list(set(...)),
\* a list in no defined order, kept as the set.
detect_resource_contention(outs) ==
    LET reqs == ResourceRequests(outs)
        names == FirstOccurrences([i \in DOMAIN reqs |-> reqs[i].resource])
        demands == [i \in DOMAIN names |-> ResourceDemand(names[i], reqs)]
        contentions == SelectSeq(demands, IsContention)
    IN IF contentions = <<>> THEN None
       ELSE Some([conflict_id |-> "CONF-004",
                  conflict_type |-> "resource_contention",
                  agents_involved |->
                      UNION {{contentions[i].requests[j].agent :
                                 j \in DOMAIN contentions[i].requests} :
                             i \in DOMAIN contentions},
                  description |-> <<"Resource contention", [i \in DOMAIN contentions |-> contentions[i].resource]>>,
                  agent_recommendations |-> [contentions |-> contentions],
                  severity |-> "medium", resolution |-> None, resolution_details |-> None])

\* A detection that adds what it finds to the conflicts an earlier call left in
\* the engine.
DetectedConflicts_WithLeftovers(outs, ctx) ==
    conflicts \o detect_budget_conflict(outs, ctx) \o detect_timeline_conflict(outs)
        \o detect_strategic_misalignment(outs) \o detect_resource_contention(outs)

\* The list detect_conflicts builds: budget, timeline, strategy, resources.
DetectedConflicts(outs, ctx) ==
    detect_budget_conflict(outs, ctx) \o detect_timeline_conflict(outs)
        \o detect_strategic_misalignment(outs) \o detect_resource_contention(outs)

\* ConflictResolver.detect_conflicts, step 4 of process_prompt: the list becomes
\* self._conflicts and is returned; what step 5 will return is not there yet.
detect_conflicts(outs, ctx) ==
    LET detected == DetectedConflicts(outs, ctx) IN
    /\ conflicts' = detected
    /\ agent_outputs' = outs
    /\ company_context' = Some(ctx)
    /\ repeat_of' = IF outs = agent_outputs /\ Some(ctx) = company_context
                    THEN Some([conflicts |-> conflicts, unresolved |-> unresolved,
                               resolution_summary |-> resolution_summary])
                    ELSE None
    /\ resolved_input' = <<>> /\ unresolved' = <<>> /\ resolution_summary' = None
    /\ call' = [op |-> "detect_conflicts", ctx |-> ctx]
    /\ ret' = detected
    /\ UNCHANGED clock
    /\ ConflictFrame

\* priority_order.get(x.get("priority", "medium"), 2)
PriorityRank(request) ==
    LET p == Get(request, "priority", "medium") IN
    CASE p = "critical" -> 0 [] p = "high" -> 1 [] p = "medium" -> 2
      [] p = "low" -> 3 [] OTHER -> 2

\* sorted(requests, key=PriorityRank): a stable sort.
RECURSIVE SortedByPriority(_)
SortedByPriority(requests) ==
    IF requests = <<>> THEN <<>>
    ELSE LET m == CHOOSE i \in DOMAIN requests :
                     /\ \A j \in DOMAIN requests :
                            PriorityRank(requests[i]) <= PriorityRank(requests[j])
                     /\ \A j \in 1..(i - 1) :
                            PriorityRank(requests[j]) > PriorityRank(requests[i])
             rest == [k \in 1..(Len(requests) - 1) |->
                         IF k < m THEN requests[k] ELSE requests[k + 1]]
         IN <<requests[m]>> \o SortedByPriority(rest)

\* An allocation loop that leaves the remaining amount as it was after a partial
\* funding.
RECURSIVE Allocate_KeepRemaining(_, _)
Allocate_KeepRemaining(sorted_requests, remaining) ==
    IF sorted_requests = <<>> THEN [allocated |-> <<>>, remaining |-> remaining]
    ELSE LET req == Head(sorted_requests) IN
         IF req.amount <= remaining
         THEN LET rest == Allocate_KeepRemaining(Tail(sorted_requests), remaining - req.amount) IN
              [allocated |-> <<[agent |-> req.agent, amount |-> req.amount,
                                status |-> "fully_funded"]>> \o rest.allocated,
               remaining |-> rest.remaining]
         ELSE LET rest == Allocate_KeepRemaining(Tail(sorted_requests), remaining) IN
              [allocated |-> <<[agent |-> req.agent, amount |-> remaining,
                                requested |-> req.amount,
                                status |-> "partially_funded"]>> \o rest.allocated,
               remaining |-> rest.remaining]

\* The allocation loop of _resolve_budget_conflict: the list allocated and what remains.
RECURSIVE Allocate(_, _)
Allocate(sorted_requests, remaining) ==
    IF sorted_requests = <<>> THEN [allocated |-> <<>>, remaining |-> remaining]
    ELSE LET req == Head(sorted_requests) IN
         IF req.amount <= remaining
         THEN LET rest == Allocate(Tail(sorted_requests), remaining - req.amount) IN
              [allocated |-> <<[agent |-> req.agent, amount |-> req.amount,
                                status |-> "fully_funded"]>> \o rest.allocated,
               remaining |-> rest.remaining]
         ELSE LET rest == Allocate(Tail(sorted_requests), 0) IN
              [allocated |-> <<[agent |-> req.agent, amount |-> remaining,
                                requested |-> req.amount,
                                status |-> "partially_funded"]>> \o rest.allocated,
               remaining |-> rest.remaining]

\* What the resolution of a budget conflict reports once the allocation is done.
BudgetOutcome(alloc) ==
    [resolved |-> alloc.remaining >= 0,
     description |-> <<"Budget allocated by priority. Remaining", alloc.remaining>>,
     allocation |-> alloc.allocated,
     requires_ceo_approval |-> alloc.remaining < 0]

\* ConflictResolver._resolve_budget_conflict: only the first department is allocated.
resolve_budget_conflict(conflict) ==
    LET data == Get(conflict.agent_recommendations, "budget_conflicts", <<>>) IN
    IF data = <<>> THEN [resolved |-> FALSE, description |-> <<"No conflict data">>]
    ELSE BudgetOutcome(Allocate(SortedByPriority(data[1].requests), data[1].available))

\* ConflictResolver._resolve_resource_conflict
resolve_resource_conflict(conflict) ==
    [resolved |-> TRUE, description |-> <<"Resources scheduled sequentially by priority">>,
     strategy |-> "time_phasing"]

\* A strategic resolution that reports the conflict as settled.
resolve_strategic_conflict_Settled(conflict) ==
    [resolved |-> TRUE, description |-> <<"Strategic misalignment requires CEO decision">>,
     escalation_required |-> TRUE,
     options |-> Get(conflict.agent_recommendations, "contradictions", <<>>)]

\* ConflictResolver._resolve_strategic_conflict
resolve_strategic_conflict(conflict) ==
    [resolved |-> FALSE, description |-> <<"Strategic misalignment requires CEO decision">>,
     escalation_required |-> TRUE,
     options |-> Get(conflict.agent_recommendations, "contradictions", <<>>)]

\* ConflictResolver._resolve_timeline_conflict
resolve_timeline_conflict(conflict) ==
    [resolved |-> TRUE, description |-> <<"Timeline adjusted to respect dependencies">>,
     strategy |-> "critical_path_adjustment"]

\* ConflictResolver._resolve_priority_conflict
resolve_priority_conflict(conflict) ==
    [resolved |-> TRUE, description |-> <<"Priorities ranked by strategic impact">>,
     strategy |-> "impact_ranking"]

\* The keys of ConflictResolver._resolution_strategies.
RegisteredTypes ==
    {"budget_overallocation", "resource_contention", "strategic_misalignment",
     "timeline_conflict", "priority_conflict"}

\* self._resolution_strategies.get(conflict.conflict_type)(conflict)
Resolution(conflict) ==
    CASE conflict.conflict_type = "budget_overallocation" -> resolve_budget_conflict(conflict)
      [] conflict.conflict_type = "resource_contention" -> resolve_resource_conflict(conflict)
      [] conflict.conflict_type = "strategic_misalignment" -> resolve_strategic_conflict(conflict)
      [] conflict.conflict_type = "timeline_conflict" -> resolve_timeline_conflict(conflict)
      [] conflict.conflict_type = "priority_conflict" -> resolve_priority_conflict(conflict)

\* A loop body that appends to unresolved only under a registered strategy.
LeftUnresolved_OnlyIfRegistered(conflict) ==
    /\ conflict.conflict_type \in RegisteredTypes
    /\ ~Get(Resolution(conflict), "resolved", FALSE)

\* Whether the loop of resolve_conflicts appends the conflict to unresolved.
LeftUnresolved(conflict) ==
    IF conflict.conflict_type \in RegisteredTypes
    THEN ~Get(Resolution(conflict), "resolved", FALSE)
    ELSE TRUE

\* The conflict object as the loop of resolve_conflicts leaves it.
AfterResolution(conflict) ==
    IF conflict.conflict_type \in RegisteredTypes
    THEN [conflict EXCEPT !.resolution = Some(Resolution(conflict).description),
                          !.resolution_details = Some(Resolution(conflict))]
    ELSE conflict

\* What resolve_conflicts(cs) returns and leaves in the objects of cs: unresolved
\* holds the positions in cs of the conflicts returned as unresolved.
ResolveResult(cs) ==
    LET Left(i) == LeftUnresolved(cs[i])
        Reg(i) == cs[i].conflict_type \in RegisteredTypes
        idx == [i \in DOMAIN cs |-> i]
        left == SelectSeq(idx, Left)
        reg == SelectSeq(idx, Reg)
    IN [after |-> [i \in DOMAIN cs |-> AfterResolution(cs[i])],
        unresolved |-> left,
        summary |-> [resolutions |-> [k \in DOMAIN reg |->
                                         [conflict_id |-> cs[reg[k]].conflict_id,
                                          resolution |-> Resolution(cs[reg[k]])]],
                     unresolved_count |-> Len(left)]]

\* ConflictResolver.resolve_conflicts on the list detect_conflicts returned: the
\* objects resolved are those of self._conflicts.
resolve_detected ==
    LET r == ResolveResult(conflicts) IN
    /\ call.op = "detect_conflicts"
    /\ conflicts' = r.after
    /\ resolved_input' = r.after
    /\ unresolved' = r.unresolved
    /\ resolution_summary' = Some(r.summary)
    /\ call' = [op |-> "resolve_conflicts", of |-> "detected"]
    /\ ret' = <<r.unresolved, r.summary>>
    /\ UNCHANGED <<agent_outputs, company_context, repeat_of, clock>>
    /\ ConflictFrame

\* ConflictResolver.resolve_conflicts on a list of conflicts the caller built.
resolve_conflicts(cs) ==
    LET r == ResolveResult(cs) IN
    /\ resolved_input' = r.after
    /\ unresolved' = r.unresolved
    /\ resolution_summary' = Some(r.summary)
    /\ call' = [op |-> "resolve_conflicts", of |-> "given"]
    /\ ret' = <<r.unresolved, r.summary>>
    /\ UNCHANGED <<conflicts, agent_outputs, company_context, repeat_of, clock>>
    /\ ConflictFrame

\* The conflicts resolve_conflicts returned as unresolved.
UnresolvedConflicts == [k \in DOMAIN unresolved |-> resolved_input[unresolved[k]]]

\* An alignment report that asks for resolution only when nothing detected is
\* below critical.
AlignmentReport_AllCritical ==
    IF conflicts = <<>>
    THEN [status |-> "ALIGNED", conflicts_detected |-> 0]
    ELSE LET Crit(c) == c.severity = "critical"
             High(c) == c.severity = "high"
             critical == Len(SelectSeq(conflicts, Crit))
             high == Len(SelectSeq(conflicts, High))
         IN [status |-> IF critical = Len(conflicts) THEN "NEEDS_RESOLUTION"
                        ELSE "MINOR_CONFLICTS",
             conflicts_detected |-> Len(conflicts),
             by_severity |-> [critical |-> critical, high |-> high,
                              medium |-> Len(conflicts) - critical - high],
             unresolved |-> <<>>]

\* ConflictResolver.get_alignment_report
AlignmentReport ==
    IF conflicts = <<>>
    THEN [status |-> "ALIGNED", conflicts_detected |-> 0]
    ELSE LET Crit(c) == c.severity = "critical"
             High(c) == c.severity = "high"
             Open(c) == c.resolution = None
             critical == Len(SelectSeq(conflicts, Crit))
             high == Len(SelectSeq(conflicts, High))
             open == SelectSeq(conflicts, Open)
         IN [status |-> IF critical > 0 THEN "NEEDS_RESOLUTION" ELSE "MINOR_CONFLICTS",
             conflicts_detected |-> Len(conflicts),
             by_severity |-> [critical |-> critical, high |-> high,
                              medium |-> Len(conflicts) - critical - high],
             unresolved |-> [i \in DOMAIN open |-> open[i].conflict_id]]

\* `x or 0` on an Optional number: None and 0 give 0.
OrZero(x) == IF Truthy(x) THEN x[1] ELSE 0

\* A rollup that counts a missing impact as zero and an impact of None as one.
TotalOf_PresentAsIs(outs, key) ==
    SeqSum([i \in DOMAIN outs |->
               IF key \in DOMAIN outs[i].output
               THEN (IF outs[i].output[key] = None THEN 1 ELSE outs[i].output[key][1])
               ELSE 0])

\* sum(o.get(key, 0) or 0 for o in agent_outputs.values())
TotalOf(outs, key) ==
    SeqSum([i \in DOMAIN outs |-> OrZero(Get(outs[i].output, key, Some(0)))])

\* {name: (o.get(key) or 0) for name, o in agent_outputs.items()}
ByDepartment(outs, key) ==
    [name \in ListSet(AgentNames(outs)) |->
        OrZero(Get((CHOOSE o \in ListSet(outs) : o.agent = name).output, key, None))]

\* CEOOrchestrator._build_strategic_options; the investments are in tenths.
build_strategic_options(outs) ==
    LET full_budget == TotalOf(outs, "budget_impact")
        full_headcount == TotalOf(outs, "headcount_impact")
    IN <<[name |-> "Comprehensive Retention Program", investment_tenths |-> full_budget * 10,
          timeline_days |-> 90, headcount |-> full_headcount],
         [name |-> "Phased Rollout", investment_tenths |-> full_budget * 6,
          timeline_days |-> 180, headcount |-> (full_headcount * 6) \div 10],
         [name |-> "Minimum Viable Program", investment_tenths |-> full_budget * 3,
          timeline_days |-> 45, headcount |-> (full_headcount * 3) \div 10]>>

\* CEOOrchestrator._build_department_plans
build_department_plans(outs) ==
    [name \in ListSet(AgentNames(outs)) |->
        LET output == (CHOOSE o \in ListSet(outs) : o.agent = name).output IN
        [recommendations |-> Get(output, "recommendations", <<>>),
         confidence |-> Get(output, "confidence", None),
         budget |-> Get(output, "budget_impact", None),
         headcount |-> Get(output, "headcount_impact", None),
         timeline_days |-> Get(output, "timeline_days", None),
         citations |-> Get(output, "citations", <<>>)]]

\* all_risks.extend(output.get("risks", [])) over the outputs, then set(all_risks)
AllRisks(outs) ==
    UNION {ListSet(Get(outs[i].output, "risks", <<>>)) : i \in DOMAIN outs}

\* The five KPIs of the package; the targets that depend on the goal are in percent.
Kpis(goal) ==
    <<[name |-> "Retention Rate", current |-> 84, target |-> 84 + goal.target_value],
      [name |-> "Customer Satisfaction (NPS)", current |-> 32, target |-> 45],
      [name |-> "Churn Rate", current |-> 16, target |-> 16 - goal.target_value],
      [name |-> "Support Resolution Time", current |-> "18.5 hours", target |-> "12 hours"],
      [name |-> "CAC", current |-> "$385", target |-> "$385 (maintain)"]>>

\* The ExecutiveOutput _generate_executive_output constructs: the fields of the
\* dataclass and nothing else.  unresolved_conflicts and resolution_summary are
\* parameters of the method that its body never reads.
ExecutiveOutput(prompt_id, goal, outs, unresolved_conflicts, summary, escalations) ==
    [prompt_id |-> prompt_id,
     strategic_goal |-> <<"Improve quarterly retention by", goal.target_value>>,
     constraint |-> goal.constraint,
     summary |-> <<goal.target_value, goal.constraint,
                   TotalOf(outs, "budget_impact"), TotalOf(outs, "headcount_impact")>>,
     strategic_options |-> build_strategic_options(outs),
     department_plans |-> build_department_plans(outs),
     budget_impact |-> [total_investment |-> TotalOf(outs, "budget_impact"),
                        by_department |-> ByDepartment(outs, "budget_impact")],
     headcount_impact |-> [total_new_hires |-> TotalOf(outs, "headcount_impact"),
                           by_department |-> ByDepartment(outs, "headcount_impact")],
     risks |-> AllRisks(outs),
     assumptions |-> <<"Churn risk model accuracy of 75%+", "Market conditions remain stable",
                       "Competitive response limited to matching (not exceeding) offers",
                       "Hiring timeline achievable in current talent market">>,
     dependencies |-> <<"Q1 financial close completion", "Board budget approval",
                        "IT system integrations completed",
                        "Marketing automation platform deployed">>,
     kpis |-> Kpis(goal),
     alignment_status |-> AlignmentReport.status,
     escalations |-> escalations,
     audit_summary |-> ReportOf(<<>>)]

\* CEOOrchestrator._generate_executive_output as process_prompt calls it, with what
\* detect_conflicts and resolve_conflicts returned for the directive.
\* generate_report(prompt_id) takes the prompt id as start_date: with no record
\* logged the report is that of an empty selection, and with records the comparison
\* of a datetime with a str raises TypeError.
generate_executive_output(prompt_id, goal, escalations) ==
    /\ call.op = "resolve_conflicts" /\ call.of = "detected"
    /\ call' = [op |-> "generate_executive_output", prompt_id |-> prompt_id,
                unresolved_conflicts |-> UnresolvedConflicts]
    /\ ret' = IF records = EmptyMap
              THEN ExecutiveOutput(prompt_id, goal, agent_outputs, UnresolvedConflicts,
                                   resolution_summary, escalations)
              ELSE [raises |-> "TypeError"]
    /\ UNCHANGED <<conflictVars, clock>>
    /\ ConflictFrame

MaxAmount == 2
Amounts == 1..MaxAmount

\* What each agent may put in its output for the engine to read.
MarketingOutputs ==
    {EmptyMap}
    \cup {[strategy |-> [cac_direction |-> d]] : d \in {"increase", "decrease"}}
    \cup {[budget_request |-> [amount |-> a, purpose |-> "campaign"]] : a \in Amounts}
    \cup {[resource_requests |-> <<[resource |-> "analyst", amount |-> 2]>>]}
    \cup {[timeline |-> [depends_on |-> <<"pricing_model">>, completion_date |-> 30]]}

FinanceOutputs ==
    {EmptyMap}
    \cup {[strategy |-> [cac_direction |-> d]] : d \in {"increase", "decrease"}}
    \cup {[strategy |-> [margin_protection |-> b]] : b \in BOOLEAN}
    \cup {[strategy |-> [cac_direction |-> "decrease", margin_protection |-> TRUE]]}
    \cup {[budget_request |-> [department |-> "marketing", amount |-> a]] : a \in Amounts}
    \cup {[resource_requests |-> <<[resource |-> "analyst", amount |-> 2, priority |-> "high"]>>]}
    \cup {[timeline |-> [deliverables |-> <<[name |-> "pricing_model", date |-> 20]>>]]}

SalesOutputs ==
    {[strategy |-> [pricing_strategy |-> p]] : p \in {"aggressive_discount", "value_based"}}

AgentOutputs ==
    {<<[agent |-> "marketing_agent", output |-> m], [agent |-> "finance_agent", output |-> f],
       [agent |-> "sales_agent", output |-> s]>> :
        m \in MarketingOutputs, f \in FinanceOutputs, s \in SalesOutputs}

\* company_context: no limit set (the code's default 0), or a marketing limit of 4.
Contexts == {[budget_limits |-> EmptyMap], [budget_limits |-> [marketing |-> 4]]}

\* Conflict objects a caller builds itself, of the kinds detection never produces
\* or with evidence of its own.
GivenConflict(id, type, severity, evidence) ==
    [conflict_id |-> id, conflict_type |-> type, agents_involved |-> <<"sales_agent">>,
     description |-> <<type>>, agent_recommendations |-> evidence, severity |-> severity,
     resolution |-> None, resolution_details |-> None]

RankedDemand(first, second, amount) ==
    [budget_conflicts |->
        <<[department |-> "marketing", requested |-> amount + 1, available |-> 2,
           shortfall |-> amount - 1,
           requests |-> <<[agent |-> "marketing_agent", amount |-> amount, priority |-> first],
                          [agent |-> "finance_agent", amount |-> 1, priority |-> second]>>]>>]

GivenConflicts ==
    {GivenConflict("CONF-D", "dependency_unmet", "critical", EmptyMap),
     GivenConflict("CONF-P", "priority_conflict", "low", EmptyMap),
     GivenConflict("CONF-S", "strategic_misalignment", "critical",
                   [contradictions |-> <<[issue |-> "CAC strategy conflict"]>>]),
     GivenConflict("CONF-R", "resource_contention", "medium", EmptyMap),
     GivenConflict("CONF-T", "timeline_conflict", "medium", EmptyMap),
     GivenConflict("CONF-B", "budget_overallocation", "high", EmptyMap)}
    \cup {GivenConflict("CONF-B", "budget_overallocation", "high", RankedDemand("low", "critical", a)) :
             a \in Amounts}
    \cup {GivenConflict("CONF-B", "budget_overallocation", "high", RankedDemand("urgent", "low", a)) :
             a \in Amounts}

\* The lists given: no conflict, one, or two in either order.
GivenLists ==
    {<<>>} \cup {<<c>> : c \in GivenConflicts} \cup {<<c, d>> : c, d \in GivenConflicts}

Goal == [target_value |-> 8, constraint |-> "None specified"]
Escalations == {<<>>, <<[agent |-> "finance_agent", reason |-> "Budget impact exceeds threshold"]>>}

\* process_prompt's steps 4, 5 and 7, directive after directive.
ConflictNext ==
    \/ \E outs \in AgentOutputs, ctx \in Contexts : detect_conflicts(outs, ctx)
    \/ resolve_detected
    \/ \E e \in Escalations : generate_executive_output("PROMPT-0001", Goal, e)

SpecConflict == Init /\ [][ConflictNext]_vars

\* resolve_conflicts called with lists of the caller's own.
ResolveNext == \E cs \in GivenLists : resolve_conflicts(cs)

SpecResolve == Init /\ [][ResolveNext]_vars

(***************************************************************************)
(* Properties of the Conflict Engine and of the decision package           *)
(***************************************************************************)
\* Whether position i of the resolved list is in the unresolved list returned.
ReturnedUnresolved(i) == \E k \in DOMAIN unresolved : unresolved[k] = i

\* The conflict carries a resolution text whose outcome is resolved.
CarriesResolvedOutcome(c) ==
    /\ c.resolution # None
    /\ c.resolution_details # None
    /\ Get(c.resolution_details[1], "resolved", FALSE)

\* C7: resolve_conflicts never drops a conflict: every conflict of its input, of
\* any kind (dependency_unmet, which has no registered strategy, included), either
\* carries a resolution text with a resolved outcome or is an element of the
\* unresolved list returned, and unresolved_count is the length of that list.
C7_NoConflictDropped ==
    call.op = "resolve_conflicts" =>
        /\ \A i \in DOMAIN resolved_input :
               CarriesResolvedOutcome(resolved_input[i]) \/ ReturnedUnresolved(i)
        /\ resolution_summary[1].unresolved_count = Len(unresolved)

\* A list with a dependency_unmet conflict returned unresolved next to a conflict
\* that was resolved.
C7_Witness ==
    /\ call.op = "resolve_conflicts"
    /\ \E i, j \in DOMAIN resolved_input :
           /\ resolved_input[i].conflict_type = "dependency_unmet"
           /\ resolved_input[i].resolution = None
           /\ ReturnedUnresolved(i)
           /\ CarriesResolvedOutcome(resolved_input[j])
           /\ ~ReturnedUnresolved(j)
    /\ resolution_summary[1].unresolved_count = Len(unresolved)

\* Whether a list of records of the package names the conflict.
NamesConflict(l, conflict_id) ==
    \E i \in DOMAIN l : "conflict_id" \in DOMAIN l[i] /\ l[i].conflict_id = conflict_id

\* Whether the package surfaces the conflict: in a list of unresolved conflicts if
\* it has one, or in any of its lists of records.
Surfaces(pkg, conflict_id) ==
    \/ "unresolved_conflicts" \in DOMAIN pkg
           /\ NamesConflict(pkg.unresolved_conflicts, conflict_id)
    \/ NamesConflict(pkg.strategic_options, conflict_id)
    \/ NamesConflict(pkg.kpis, conflict_id)
    \/ NamesConflict(pkg.escalations, conflict_id)

\* C8: every conflict the Conflict Engine left unresolved for a directive is
\* surfaced in the directive's decision package, and a critical unresolved
\* conflict makes the package's alignment_status NEEDS_RESOLUTION.
C8_UnresolvedSurfacedInPackage ==
    (call.op = "generate_executive_output" /\ "raises" \notin DOMAIN ret) =>
        \A k \in DOMAIN call.unresolved_conflicts :
            /\ Surfaces(ret, call.unresolved_conflicts[k].conflict_id)
            /\ call.unresolved_conflicts[k].severity = "critical"
                   => ret.alignment_status = "NEEDS_RESOLUTION"

\* The strategic_misalignment conflicts of a list.
StrategicOnes(l) ==
    LET Strategic(c) == c.conflict_type = "strategic_misalignment" IN SelectSeq(l, Strategic)

\* Two agents declare opposite directions for the acquisition-cost lever.
OppositeDirections(outs) ==
    \E i, j \in DOMAIN outs :
        LET a == Get(StrategyOf(outs, outs[i].agent), "cac_direction", "")
            b == Get(StrategyOf(outs, outs[j].agent), "cac_direction", "")
        IN i # j /\ a \in {"increase", "decrease"} /\ b \in {"increase", "decrease"} /\ a # b

\* The pairs of declarations the detection knows: marketing increasing the
\* acquisition cost while finance decreases it, and sales discounting aggressively
\* while finance protects margins.
KnownAntagonisticPair(outs) ==
    \/ /\ Get(StrategyOf(outs, "marketing_agent"), "cac_direction", "") = "increase"
       /\ Get(StrategyOf(outs, "finance_agent"), "cac_direction", "") = "decrease"
    \/ /\ Get(StrategyOf(outs, "sales_agent"), "pricing_strategy", "") = "aggressive_discount"
       /\ Get(StrategyOf(outs, "finance_agent"), "margin_protection", FALSE) = TRUE

\* Exactly one strategic_misalignment conflict, of severity critical.
OneCriticalMisalignment(l) ==
    /\ Len(StrategicOnes(l)) = 1
    /\ StrategicOnes(l)[1].severity = "critical"

\* The strategic conflicts of the resolved list are all returned unresolved, each
\* annotated with the positions in contradiction.
MisalignmentLeftToHumans ==
    \A i \in DOMAIN resolved_input :
        resolved_input[i].conflict_type = "strategic_misalignment" =>
            /\ ReturnedUnresolved(i)
            /\ ~CarriesResolvedOutcome(resolved_input[i])
            /\ resolved_input[i].resolution_details[1].options
                   = Get(resolved_input[i].agent_recommendations, "contradictions", <<>>)

LeavesRequestUnfunded(c) ==
    /\ c.conflict_type = "budget_overallocation"
    /\ c.resolution_details # None
    /\ "allocation" \in DOMAIN c.resolution_details[1]
    /\ \E a \in DOMAIN c.resolution_details[1].allocation :
           c.resolution_details[1].allocation[a].status # "fully_funded"

\* C10: when the resolution of a budget_overallocation conflict leaves a request
\* not fully funded, the result is marked as requiring escalation and not resolved,
\* and the conflict is in the unresolved set.
C10_UnfundedRequiresEscalation ==
    call.op = "resolve_conflicts" =>
        \A i \in DOMAIN resolved_input :
            LeavesRequestUnfunded(resolved_input[i]) =>
                /\ ~resolved_input[i].resolution_details[1].resolved
                /\ resolved_input[i].resolution_details[1].requires_ceo_approval
                /\ ReturnedUnresolved(i)

(***************************************************************************)
(* Orchestrator (ceo_orchestrator.py)                                      *)
(*                                                                         *)
(* A call that raises returns [raises |-> the exception], next to what the *)
(* call had done by then.  A worker is known by what its process_task does *)
(* when invoked: it returns an AgentOutput or it raises.                   *)
(***************************************************************************)
OrchestratorFrame ==
    UNCHANGED <<storeVars, govVars, auditVars, conflictVars, threadVars, clock>>

\* The methods class AuditLogger defines.
AuditLoggerMethods ==
    {"log_decision", "update_outcome", "add_approval", "get_record",
     "get_records_by_prompt", "get_records_by_agent", "get_pending_approvals",
     "get_escalated_decisions", "verify_integrity", "generate_report", "export_json",
     "register_callback"}

\* The names package infrastructure exports.
InfrastructureExports ==
    {"SharedMemory", "get_shared_memory", "AuditLogger", "get_audit_logger",
     "DecisionType", "ConfidenceLevel", "EnterpriseDataStore", "get_data_store",
     "ConflictResolver", "Conflict", "ConflictType", "Governance", "ApprovalRequest",
     "PermissionLevel", "ApprovalStatus"}

\* The keys of CEOOrchestrator.agents.
Agents == {"sales", "marketing", "finance", "operations", "support", "hr"}

\* The states a directive is said to move through.
DirectiveStates ==
    <<"Received", "IntentParsed", "TasksDispatched", "OutputsCollected",
      "ConflictsResolved", "GovernanceChecked", "Finalized">>

\* CEOOrchestrator.process_prompt: the prompt id is drawn, and the statement that
\* follows calls self.audit_logger.log, a method AuditLogger does not define:
\* the AttributeError leaves process_prompt before its step 1.
process_prompt(prompt) ==
    /\ "log" \notin AuditLoggerMethods
    /\ call' = [op |-> "process_prompt", prompt |-> prompt]
    /\ ret' = [raises |-> "AttributeError", states |-> <<"Received">>, invoked |-> <<>>]
    /\ OrchestratorFrame

\* The dict _route_tasks makes of an AgentOutput.
RoutedOutput(output) ==
    [agent_name |-> output.agent_name, task_id |-> output.task_id,
     recommendations |-> output.recommendations, confidence |-> output.confidence,
     what_would_change_mind |-> output.what_would_change_mind,
     citations |-> output.citations, budget_impact |-> output.budget_impact,
     headcount_impact |-> output.headcount_impact, timeline_days |-> output.timeline_days,
     risks |-> output.risks, dependencies |-> output.dependencies]

\* outputs[agent_name] = output, on a dict kept in insertion order.
DictPut(outs, agent_name, output) ==
    IF \E i \in DOMAIN outs : outs[i].agent = agent_name
    THEN [i \in DOMAIN outs |->
             IF outs[i].agent = agent_name THEN [agent |-> agent_name, output |-> output]
             ELSE outs[i]]
    ELSE Append(outs, [agent |-> agent_name, output |-> output])

\* The loop of _route_tasks from the tasks left, with the outputs collected and
\* the workers invoked so far.  Nothing catches what process_task raises; and
\* after an output is collected, `from infrastructure import MemoryType, Priority`
\* raises ImportError, the package exporting neither name, so that the store that
\* follows it is never reached.
RECURSIVE RouteTasks(_, _, _, _)
RouteTasks(tasks, behaviour, outputs, invoked) ==
    IF tasks = <<>> THEN [outputs |-> outputs, invoked |-> invoked]
    ELSE LET agent_name == Head(tasks).agent IN
         IF agent_name \notin Agents
         THEN RouteTasks(Tail(tasks), behaviour, outputs, invoked)
         ELSE IF "raises" \in DOMAIN behaviour[agent_name]
         THEN [outputs |-> outputs, invoked |-> Append(invoked, agent_name),
               raises |-> behaviour[agent_name].raises]
         ELSE LET collected == DictPut(outputs, agent_name,
                                       RoutedOutput(behaviour[agent_name].returns))
              IN IF {"MemoryType", "Priority"} \subseteq InfrastructureExports
                 THEN RouteTasks(Tail(tasks), behaviour, collected,
                                 Append(invoked, agent_name))
                 ELSE [outputs |-> collected, invoked |-> Append(invoked, agent_name),
                       raises |-> "ImportError"]

\* CEOOrchestrator._route_tasks
route_tasks(tasks, behaviour) ==
    /\ call' = [op |-> "route_tasks", tasks |-> tasks, behaviour |-> behaviour]
    /\ ret' = RouteTasks(tasks, behaviour, <<>>, <<>>)
    /\ OrchestratorFrame

\* The AgentOutput a worker returns; confidence is in hundredths.
AgentOutput(agent_name, confidence, budget_impact, headcount_impact) ==
    [agent_name |-> agent_name, task_id |-> "TASK-0001",
     recommendations |-> <<"recommendation">>, confidence |-> confidence,
     citations |-> <<"crm">>, what_would_change_mind |-> <<>>,
     budget_impact |-> budget_impact, headcount_impact |-> headcount_impact,
     timeline_days |-> None, risks |-> <<>>, dependencies |-> <<>>]

\* What each worker does when invoked: it raises, or it returns an output.
BehaviourOf(choice) ==
    [a \in Agents |->
        IF choice[a] = "raises" THEN [raises |-> "RuntimeError"]
        ELSE [returns |-> AgentOutput(a, 85, Some(450000), Some(8))]]

Behaviours == {BehaviourOf(choice) : choice \in [Agents -> {"raises", "returns"}]}

\* CEOOrchestrator._decompose_goal: the six tasks of a retention goal.
RetentionTasks ==
    <<[agent |-> "sales", type |-> "improve_retention"],
      [agent |-> "marketing", type |-> "retention_campaign"],
      [agent |-> "finance", type |-> "budget_planning"],
      [agent |-> "operations", type |-> "process_optimization"],
      [agent |-> "support", type |-> "churn_analysis"],
      [agent |-> "hr", type |-> "hiring_plan"]>>

TaskLists ==
    {RetentionTasks, <<>>, SubSeq(RetentionTasks, 5, 6),
     <<[agent |-> "legal", type |-> "review"], [agent |-> "finance", type |-> "budget_planning"]>>}

Prompts == {"Improve quarterly retention by 8% without increasing CAC", "Cut costs", ""}

\* The workers the tasks name, those _route_tasks is to invoke.
TaskAgents(tasks) == {tasks[i].agent : i \in DOMAIN tasks} \cap Agents

\* The output recorded for a worker whose invocation failed.
IsDegraded(output) == output.recommendations = <<>> /\ output.confidence < 60

\* C11: if a worker invocation fails for one task of a directive, the failure is
\* recorded as a degraded output (empty recommendations, low confidence) for that
\* worker, the remaining workers' tasks are still invoked and aggregated, and the
\* directive is not aborted.
C11_WorkerFailureDegrades ==
    (/\ call.op = "route_tasks"
     /\ \E a \in TaskAgents(call.tasks) : "raises" \in DOMAIN call.behaviour[a]) =>
        /\ "raises" \notin DOMAIN ret
        /\ \A a \in TaskAgents(call.tasks) :
               /\ InList(a, ret.invoked)
               /\ \E i \in DOMAIN ret.outputs :
                      /\ ret.outputs[i].agent = a
                      /\ "raises" \in DOMAIN call.behaviour[a]
                             => IsDegraded(ret.outputs[i].output)

\* C12: for every directive text, process_prompt terminates in the Finalized state
\* and returns a decision package to the caller.
C12_DirectiveFinalized ==
    call.op = "process_prompt" =>
        /\ "raises" \notin DOMAIN ret
        /\ ret.states[Len(ret.states)] = "Finalized"

\* C13: each directive moves through Received, IntentParsed, TasksDispatched,
\* OutputsCollected, ConflictsResolved, GovernanceChecked, Finalized in exactly that
\* order, and the worker of each dispatched task is invoked exactly once.
C13_StatesInOrder ==
    call.op = "process_prompt" =>
        /\ ret.states = DirectiveStates
        /\ \A i, j \in DOMAIN ret.invoked : ret.invoked[i] = ret.invoked[j] => i = j
        /\ ListSet(ret.invoked) = TaskAgents(RetentionTasks)

\* What the six workers report to the package: the impacts of the retention
\* scenario, or none (None, as a worker that sets no impact leaves it), or a dict
\* without the key.
Reported(agent_name, budget_impact, headcount_impact) ==
    RoutedOutput(AgentOutput(agent_name, 85, budget_impact, headcount_impact))

Unreported(agent_name) == [agent_name |-> agent_name, recommendations |-> <<>>]

ReportChoices ==
    [sales |-> {Reported("sales", Some(450000), Some(8)), Unreported("sales")},
     marketing |-> {Reported("marketing", Some(850000), Some(3)),
                    Reported("marketing", None, None)},
     finance |-> {Reported("finance", Some(0), Some(0))},
     operations |-> {Reported("operations", Some(350000), Some(0)),
                     Reported("operations", Some(0), None)},
     support |-> {Reported("support", Some(200000), Some(6)),
                  Reported("support", None, Some(6))},
     hr |-> {Reported("hr", Some(1875000), Some(12)), Unreported("hr"),
             Reported("hr", Some(0), Some(0))}]

\* agent_outputs in the order of the tasks.
OutputsInTaskOrder(report) ==
    [i \in DOMAIN RetentionTasks |->
        [agent |-> RetentionTasks[i].agent, output |-> report[RetentionTasks[i].agent]]]

PackageOutputs ==
    {OutputsInTaskOrder(report) :
        report \in [sales : ReportChoices.sales, marketing : ReportChoices.marketing,
                    finance : ReportChoices.finance, operations : ReportChoices.operations,
                    support : ReportChoices.support, hr : ReportChoices.hr]}
    \cup {OutputsInTaskOrder([a \in Agents |-> Reported(a, Some(0), Some(0))]),
          OutputsInTaskOrder([a \in Agents |-> Reported(a, None, None)]),
          OutputsInTaskOrder([a \in Agents |-> Unreported(a)])}

\* Steps 4, 5 and 7 of process_prompt on what the six workers report.
PackageNext ==
    \/ \E outs \in PackageOutputs : detect_conflicts(outs, [budget_limits |-> EmptyMap])
    \/ resolve_detected
    \/ \E e \in Escalations : generate_executive_output("PROMPT-0001", Goal, e)

SpecPackage == Init /\ [][PackageNext]_vars

\* A worker's budget impact, missing or None counted as zero.
BudgetImpactOf(output) ==
    IF "budget_impact" \notin DOMAIN output THEN 0
    ELSE IF output.budget_impact = None THEN 0
    ELSE output.budget_impact[1]

\* The option of the package with the name.
OptionNamed(pkg, name) ==
    pkg.strategic_options[CHOOSE i \in DOMAIN pkg.strategic_options :
                              pkg.strategic_options[i].name = name]

\* C14: the package's total budget impact is the sum over the worker outputs of
\* their budget impact, a missing or None value counted as zero; the full-scope
\* option's investment is that total and the minimal option's is 30% of it
\* (investments are in tenths: 10 tenths per unit for the total, 3 for 30%).
C14_BudgetRollup ==
    (call.op = "generate_executive_output" /\ "raises" \notin DOMAIN ret) =>
        LET total == SeqSum([i \in DOMAIN agent_outputs |->
                                BudgetImpactOf(agent_outputs[i].output)])
        IN /\ ret.budget_impact.total_investment = total
           /\ OptionNamed(ret, "Comprehensive Retention Program").investment_tenths
                  = 10 * total
           /\ OptionNamed(ret, "Minimum Viable Program").investment_tenths = 3 * total

\* The impacts 450000, 850000, 0, 350000, 200000, 1875000 give 3,725,000 in total
\* and 1,117,500 for the minimal option.
C14_Witness ==
    /\ call.op = "generate_executive_output"
    /\ "raises" \notin DOMAIN ret
    /\ [i \in DOMAIN agent_outputs |-> BudgetImpactOf(agent_outputs[i].output)]
           = <<450000, 850000, 0, 350000, 200000, 1875000>>
    /\ ret.budget_impact.total_investment = 3725000
    /\ OptionNamed(ret, "Comprehensive Retention Program").investment_tenths = 37250000
    /\ OptionNamed(ret, "Minimum Viable Program").investment_tenths = 11175000

\* Decisions logged for two directives on one Audit Trail, and the package of the
\* first directive assembled over it.
DirectiveIds == {"PROMPT-0001", "PROMPT-0002"}

ScopedNext ==
    \/ \E d \in DirectiveIds :
          log_decision("finance_agent", "recommendation", d, "d1", "r1", 85, <<>>, None)
    \/ detect_conflicts(OutputsInTaskOrder([a \in Agents |-> Reported(a, Some(0), Some(0))]),
                        [budget_limits |-> EmptyMap])
    \/ resolve_detected
    \/ \E e \in Escalations : generate_executive_output("PROMPT-0001", Goal, e)

SpecScoped == Init /\ [][ScopedNext]_vars

\* The records logged for the directive.
RecordsOfDirective(prompt_id) == {id \in DOMAIN records : records[id].prompt_id = prompt_id}

\* C28: the audit summary of a directive's package counts exactly the records
\* logged with the directive's id.
C28_AuditSummaryScoped ==
    [][call'.op = "generate_executive_output" =>
          /\ "raises" \notin DOMAIN ret'
          /\ ret'.audit_summary.total_decisions =
                Cardinality(RecordsOfDirective(call'.prompt_id))]_vars

(***************************************************************************)
(* Escalation rules (governance.py) and the governance step                *)
(*                                                                         *)
(* An agent output is a dict; confidence is in hundredths, and the impacts *)
(* are Optional numbers, None where the worker set none.                   *)
(***************************************************************************)
ConfidenceThreshold == 60
BudgetEscalationLimit == 500000
HeadcountEscalationLimit == 20
DepartmentEscalationLimit == 3

\* Governance.should_escalate: the rules in the order of the code, each read of an
\* impact compared as it is, so that `None > limit` raises TypeError.
ShouldEscalate(agent_output) ==
    LET budget_impact == Get(agent_output, "budget_impact", Some(0))
        headcount_impact == Get(agent_output, "headcount_impact", Some(0))
    IN IF Get(agent_output, "confidence", 100) < ConfidenceThreshold
       THEN [escalate |-> TRUE, reason |-> "Confidence below threshold (60%)"]
       ELSE IF budget_impact = None THEN [raises |-> "TypeError"]
       ELSE IF budget_impact[1] > BudgetEscalationLimit
       THEN [escalate |-> TRUE, reason |-> "Budget impact exceeds $500K"]
       ELSE IF Get(agent_output, "requires_policy_change", FALSE)
       THEN [escalate |-> TRUE, reason |-> "Requires policy change"]
       ELSE IF headcount_impact = None THEN [raises |-> "TypeError"]
       ELSE IF headcount_impact[1] > HeadcountEscalationLimit
       THEN [escalate |-> TRUE, reason |-> "Headcount impact exceeds 20 FTE"]
       ELSE IF Len(Get(agent_output, "affected_departments", <<>>)) > DepartmentEscalationLimit
       THEN [escalate |-> TRUE, reason |-> "Affects more than 3 departments"]
       ELSE [escalate |-> FALSE, reason |-> ""]

\* Governance.should_escalate
should_escalate(agent_output) ==
    /\ call' = [op |-> "should_escalate", agent_output |-> agent_output]
    /\ ret' = ShouldEscalate(agent_output)
    /\ UNCHANGED <<govVars, clock>>
    /\ GovFrame

\* The outputs should_escalate is given: each key missing or at a value on either
\* side of its rule.
EscalationInputs ==
    {c @@ b @@ p @@ h @@ d :
        c \in {EmptyMap, [confidence |-> 55], [confidence |-> 60]},
        b \in {EmptyMap, [budget_impact |-> None], [budget_impact |-> Some(500000)],
               [budget_impact |-> Some(500001)]},
        p \in {EmptyMap, [requires_policy_change |-> TRUE],
               [requires_policy_change |-> FALSE]},
        h \in {EmptyMap, [headcount_impact |-> None], [headcount_impact |-> Some(20)],
               [headcount_impact |-> Some(21)]},
        d \in {EmptyMap, [affected_departments |-> <<"sales", "marketing", "support">>],
               [affected_departments |-> <<"sales", "marketing", "support", "hr">>]}}

EscalateNext == \E agent_output \in EscalationInputs : should_escalate(agent_output)

SpecEscalate == Init /\ [][EscalateNext]_vars

\* The rules of escalation that match an output, in their order, each with its
\* reason; an impact that is missing or None exceeds no limit.
MatchingReasons(o) ==
    (IF "confidence" \in DOMAIN o /\ o.confidence < 60
     THEN <<"Confidence below threshold (60%)">> ELSE <<>>)
    \o (IF "budget_impact" \in DOMAIN o /\ o.budget_impact # None
           /\ OrZero(o.budget_impact) > 500000
        THEN <<"Budget impact exceeds $500K">> ELSE <<>>)
    \o (IF "requires_policy_change" \in DOMAIN o /\ o.requires_policy_change
        THEN <<"Requires policy change">> ELSE <<>>)
    \o (IF "headcount_impact" \in DOMAIN o /\ o.headcount_impact # None
           /\ OrZero(o.headcount_impact) > 20
        THEN <<"Headcount impact exceeds 20 FTE">> ELSE <<>>)
    \o (IF "affected_departments" \in DOMAIN o /\ Len(o.affected_departments) > 3
        THEN <<"Affects more than 3 departments">> ELSE <<>>)

\* C15: should_escalate returns true if and only if at least one rule matches
\* (confidence < 0.60, budget impact > 500,000, policy change required, headcount
\* impact > 20, more than 3 departments), with the reason of the first matching
\* rule in this order, and (false, empty reason) when none matches.
C15_EscalationRules ==
    call.op = "should_escalate" =>
        /\ "raises" \notin DOMAIN ret
        /\ ret.escalate = (MatchingReasons(call.agent_output) # <<>>)
        /\ ret.reason = IF MatchingReasons(call.agent_output) # <<>>
                        THEN MatchingReasons(call.agent_output)[1] ELSE ""

\* The number of detected conflicts of a severity.
DetectedOfSeverity(severity) ==
    Cardinality({i \in DOMAIN conflicts : conflicts[i].severity = severity})

\* The status the detected conflicts call for.
StatusCalledFor ==
    IF conflicts = <<>> THEN "ALIGNED"
    ELSE IF DetectedOfSeverity("critical") >= 1 THEN "NEEDS_RESOLUTION"
    ELSE "MINOR_CONFLICTS"

\* C16 as stated: after detect_conflicts the report's status is ALIGNED exactly when
\* nothing was detected, NEEDS_RESOLUTION exactly when a detected conflict is
\* critical and MINOR_CONFLICTS otherwise, and the report has per-severity counts
\* that equal the number of detected conflicts of each severity.
C16_AlignmentReportWithCounts ==
    call.op = "detect_conflicts" =>
        /\ AlignmentReport.status = StatusCalledFor
        /\ "by_severity" \in DOMAIN AlignmentReport
        /\ \A severity \in {"critical", "high", "medium", "low"} :
               /\ severity \in DOMAIN AlignmentReport.by_severity
               /\ AlignmentReport.by_severity[severity] = DetectedOfSeverity(severity)

\* C16, amended: from detect_conflicts on, the status is ALIGNED exactly when
\* nothing was detected, NEEDS_RESOLUTION exactly when a detected conflict is
\* critical and MINOR_CONFLICTS otherwise; a report of detected conflicts counts
\* them by severity critical, high and medium (detection produces no other), and
\* the ALIGNED report carries the count 0 and no per-severity counts.
C16_AlignmentReport ==
    call.op \in {"detect_conflicts", "resolve_conflicts", "generate_executive_output"} =>
        /\ AlignmentReport.status = StatusCalledFor
        /\ AlignmentReport.conflicts_detected = Len(conflicts)
        /\ conflicts = <<>> => "by_severity" \notin DOMAIN AlignmentReport
        /\ conflicts # <<>> =>
               /\ DOMAIN AlignmentReport.by_severity = {"critical", "high", "medium"}
               /\ \A severity \in {"critical", "high", "medium"} :
                      AlignmentReport.by_severity[severity] = DetectedOfSeverity(severity)

\* Detection found a critical misalignment next to a conflict of medium severity.
C16_Witness ==
    /\ call.op = "detect_conflicts"
    /\ DetectedOfSeverity("critical") = 1
    /\ DetectedOfSeverity("medium") = 1
    /\ AlignmentReport.status = "NEEDS_RESOLUTION"
    /\ AlignmentReport.by_severity = [critical |-> 1, high |-> 0, medium |-> 1]

\* What detection puts into a conflict: kind, involved workers, severity, evidence.
AsDetected(c) ==
    [conflict_id |-> c.conflict_id, conflict_type |-> c.conflict_type,
     agents_involved |-> c.agents_involved, description |-> c.description,
     agent_recommendations |-> c.agent_recommendations, severity |-> c.severity]
AllAsDetected(cs) == [i \in DOMAIN cs |-> AsDetected(cs[i])]

\* C26: a detect_conflicts given the outputs and the context of the run before it
\* on the same engine detects the same conflicts, none of them carrying a
\* resolution left over from that run, and the resolve_conflicts that follows
\* returns the same unresolved conflicts and the same resolutions as before.
C26_RepeatedRunsAgree ==
    repeat_of # None =>
       /\ call.op = "detect_conflicts" =>
             /\ AllAsDetected(conflicts) = AllAsDetected(repeat_of[1].conflicts)
             /\ \A i \in DOMAIN conflicts :
                   conflicts[i].resolution = None /\ conflicts[i].resolution_details = None
       /\ (/\ call.op = "resolve_conflicts"
           /\ call.of = "detected"
           /\ repeat_of[1].resolution_summary # None) =>
             /\ conflicts = repeat_of[1].conflicts
             /\ unresolved = repeat_of[1].unresolved
             /\ resolution_summary = repeat_of[1].resolution_summary

\* A second complete run on the same inputs, with a conflict it resolved and a
\* conflict it left unresolved.
C26_Witness ==
    /\ call.op = "resolve_conflicts"
    /\ call.of = "detected"
    /\ repeat_of # None
    /\ repeat_of[1].resolution_summary # None
    /\ unresolved # <<>>
    /\ Len(unresolved) < Len(conflicts)

\* The loop of _check_governance from the outputs left, with the escalations
\* collected so far.  An escalation is appended and then logged through
\* self.audit_logger.log_escalation, a method AuditLogger does not define.
RECURSIVE CheckGovernance(_, _)
CheckGovernance(outs, escalations) ==
    IF outs = <<>> THEN [escalations |-> escalations]
    ELSE LET output == Head(outs).output
             verdict == ShouldEscalate(output)
         IN IF "raises" \in DOMAIN verdict
            THEN [escalations |-> escalations, raises |-> verdict.raises]
            ELSE IF verdict.escalate
            THEN LET escalation == [agent |-> Head(outs).agent, reason |-> verdict.reason,
                                    budget_impact |-> Get(output, "budget_impact", None),
                                    headcount_impact |-> Get(output, "headcount_impact", None)]
                 IN IF "log_escalation" \in AuditLoggerMethods
                    THEN CheckGovernance(Tail(outs), Append(escalations, escalation))
                    ELSE [escalations |-> Append(escalations, escalation),
                          raises |-> "AttributeError"]
            ELSE CheckGovernance(Tail(outs), escalations)

\* CEOOrchestrator._check_governance
check_governance(outs) ==
    /\ call' = [op |-> "check_governance", agent_outputs |-> outs]
    /\ ret' = CheckGovernance(outs, <<>>)
    /\ OrchestratorFrame

\* What the six workers hand to the governance step.
GovernedChoices ==
    [sales |-> {Reported("sales", Some(450000), Some(8)),
                RoutedOutput(AgentOutput("sales", 55, Some(450000), Some(8))),
                Reported("sales", Some(50000), None)},
     marketing |-> {Reported("marketing", Some(850000), Some(3)),
                    Reported("marketing", Some(0), Some(3))},
     finance |-> {Reported("finance", Some(0), Some(0))},
     operations |-> {Reported("operations", Some(350000), Some(0)),
                     RoutedOutput(AgentOutput("operations", 60, Some(150000), Some(5)))},
     support |-> {Reported("support", Some(200000), Some(6))},
     hr |-> {Reported("hr", Some(1875000), Some(12)), Reported("hr", Some(25000), Some(21)),
             Reported("hr", Some(0), Some(0))}]

GovernedOutputs ==
    {OutputsInTaskOrder(report) :
        report \in [sales : GovernedChoices.sales, marketing : GovernedChoices.marketing,
                    finance : GovernedChoices.finance, operations : GovernedChoices.operations,
                    support : GovernedChoices.support, hr : GovernedChoices.hr]}

OrchestratorNext ==
    \/ \E prompt \in Prompts : process_prompt(prompt)
    \/ \E tasks \in TaskLists, behaviour \in Behaviours : route_tasks(tasks, behaviour)
    \/ \E outs \in GovernedOutputs : check_governance(outs)

SpecOrchestrator == Init /\ [][OrchestratorNext]_vars

\* C17: the escalations of a directive hold exactly one entry for each worker
\* output on which should_escalate returns true and no entry for any other output
\* (and the package that carries them has an alignment_status).
C17_OneEscalationPerEscalatedOutput ==
    (/\ call.op = "check_governance"
     /\ \A i \in DOMAIN call.agent_outputs :
            "raises" \notin DOMAIN ShouldEscalate(call.agent_outputs[i].output)) =>
        /\ "raises" \notin DOMAIN ret
        /\ \A i \in DOMAIN call.agent_outputs :
               Cardinality({k \in DOMAIN ret.escalations :
                               ret.escalations[k].agent = call.agent_outputs[i].agent})
                   = IF ShouldEscalate(call.agent_outputs[i].output).escalate THEN 1 ELSE 0
        /\ {"escalations", "alignment_status"} \subseteq
               DOMAIN ExecutiveOutput("PROMPT-0001", Goal, call.agent_outputs, <<>>, None,
                                      ret.escalations)

(***************************************************************************)
(* Budget conflicts, from detection to allocation                          *)
(***************************************************************************)
\* The priorities a budget request declares.
DeclaredPriorities == {"low", "critical"}

\* The departments a request names or is filed under by its agent's name.
Departments == {"marketing", "finance"}

\* Budget requests as the agents file them: marketing_agent for its own
\* department, finance_agent naming the department.
MarketingRequests ==
    {EmptyMap}
    \cup {[budget_request |-> [amount |-> a, purpose |-> "campaign", priority |-> p]] :
             a \in Amounts, p \in DeclaredPriorities}

FinanceRequests ==
    {EmptyMap}
    \cup {[budget_request |-> [department |-> d, amount |-> a, priority |-> p]] :
             d \in Departments, a \in Amounts, p \in DeclaredPriorities}

BudgetOutputs ==
    {<<[agent |-> "marketing_agent", output |-> m], [agent |-> "finance_agent", output |-> f]>> :
        m \in MarketingRequests, f \in FinanceRequests}

\* company_context.budget_limits: no limit, a marketing limit, a limit for both.
BudgetContexts ==
    {[budget_limits |-> EmptyMap], [budget_limits |-> [marketing |-> 2]],
     [budget_limits |-> [marketing |-> 4, finance |-> 2]]}

\* detect_conflicts, then resolve_conflicts on what it returned.
BudgetNext ==
    \/ \E outs \in BudgetOutputs, ctx \in BudgetContexts : detect_conflicts(outs, ctx)
    \/ resolve_detected

SpecBudget == Init /\ [][BudgetNext]_vars

\* The budget_overallocation conflicts among the conflicts of the engine.
BudgetConflicts ==
    LET IsBudget(c) == c.conflict_type = "budget_overallocation" IN
    SelectSeq(conflicts, IsBudget)

\* The rank of the priority the agent declared in the budget_request it filed.
DeclaredRank(agent) ==
    PriorityRank((CHOOSE o \in ListSet(agent_outputs) : o.agent = agent).output["budget_request"])

\* C32: for a budget_overallocation conflict produced by detect_conflicts, the
\* resolution funds requests in the order critical > high > medium > low of the
\* priorities the requests declared: no request receives anything before every
\* request of strictly higher declared priority has been fully funded.
C32_FundedByDeclaredPriority ==
    call.op = "resolve_conflicts" =>
        \A c \in DOMAIN BudgetConflicts :
            LET allocation == BudgetConflicts[c].resolution_details[1].allocation IN
            \A a, b \in DOMAIN allocation :
                (/\ DeclaredRank(allocation[b].agent) < DeclaredRank(allocation[a].agent)
                 /\ allocation[a].amount > 0) =>
                    /\ b < a
                    /\ allocation[b].status = "fully_funded"

\* The department a worker output's budget request is counted under.
DepartmentOf(o) ==
    Get(o.output["budget_request"], "department", StripAgentSuffix(o.agent))

\* The sum of the amounts the outputs of the last detection request for dept.
RequestedFor(dept) ==
    SeqSum([i \in DOMAIN agent_outputs |->
               IF /\ "budget_request" \in DOMAIN agent_outputs[i].output
                  /\ DepartmentOf(agent_outputs[i]) = dept
               THEN Get(agent_outputs[i].output["budget_request"], "amount", 0)
               ELSE 0])

\* The limit of dept in the snapshot given to the last detection, 0 without one.
LimitOf(dept) == Get(company_context[1].budget_limits, dept, 0)

\* The departments whose requests exceed the limit less the half assumed spent.
OverAllocated == {d \in Departments : 2 * RequestedFor(d) > LimitOf(d)}

\* C33: detect_conflicts flags a budget_overallocation conflict, of severity
\* high, if and only if the amounts requested for some department sum to more
\* than its limit less the 50% of the limit assumed spent (no limit counting as
\* 0), and the evidence lists every such department, once, with its requested,
\* available and shortfall values.
C33_BudgetOverallocationFlagged ==
    call.op = "detect_conflicts" =>
        /\ (BudgetConflicts # <<>>) <=> (OverAllocated # {})
        /\ Len(BudgetConflicts) <= 1
        /\ \A c \in DOMAIN BudgetConflicts :
               LET listed == BudgetConflicts[c].agent_recommendations.budget_conflicts IN
               /\ BudgetConflicts[c].severity = "high"
               /\ {listed[i].department : i \in DOMAIN listed} = OverAllocated
               /\ Len(listed) = Cardinality(OverAllocated)
               /\ \A i \in DOMAIN listed :
                      /\ listed[i].requested = RequestedFor(listed[i].department)
                      /\ 2 * listed[i].available = LimitOf(listed[i].department)
                      /\ listed[i].shortfall = listed[i].requested - listed[i].available

\* A detection that found two departments over their available budget, one of
\* them with a limit.
C33_Witness ==
    /\ call.op = "detect_conflicts"
    /\ BudgetConflicts # <<>>
    /\ OverAllocated = Departments
    /\ LimitOf("marketing") > 0

(***************************************************************************)
(* Resource contention                                                     *)
(***************************************************************************)
Resources == {"analyst", "designer"}

\* resource_requests as the agents file them: marketing_agent one or two requests
\* for analysts, finance_agent and sales_agent at most one request each.
AnalystRequests ==
    {<<[resource |-> "analyst", amount |-> a]>> : a \in Amounts}
    \cup {<<[resource |-> "analyst", amount |-> a], [resource |-> "analyst", amount |-> b]>> :
             a, b \in Amounts}

SingleRequests ==
    {EmptyMap} \cup {[resource_requests |-> <<[resource |-> r, amount |-> a]>>] :
                        r \in Resources, a \in Amounts}

ResourceOutputs ==
    {<<[agent |-> "marketing_agent", output |-> [resource_requests |-> m]],
       [agent |-> "finance_agent", output |-> f], [agent |-> "sales_agent", output |-> s]>> :
        m \in AnalystRequests, f \in SingleRequests, s \in SingleRequests}

ContentionNext ==
    \E outs \in ResourceOutputs : detect_conflicts(outs, [budget_limits |-> EmptyMap])

SpecContention == Init /\ [][ContentionNext]_vars

\* The requests for resource in the outputs of the last detection, each with the
\* worker that filed it.
RequestsFor(resource) ==
    LET Named(r) == r.resource = Some(resource) IN
    SelectSeq([i \in DOMAIN ResourceRequests(agent_outputs) |->
                  [resource |-> Some(ResourceRequests(agent_outputs)[i].resource),
                   agent |-> ResourceRequests(agent_outputs)[i].request.agent,
                   amount |-> ResourceRequests(agent_outputs)[i].request.amount]], Named)

\* The distinct workers requesting resource.
WorkersRequesting(resource) ==
    {RequestsFor(resource)[i].agent : i \in DOMAIN RequestsFor(resource)}

\* The resource_contention conflicts among the conflicts of the engine.
ContentionConflicts ==
    LET IsContended(c) == c.conflict_type = "resource_contention" IN
    SelectSeq(conflicts, IsContended)

\* C34: detect_conflicts flags a resource_contention conflict, of severity
\* medium, if and only if some resource is requested by more than one distinct
\* worker and the amounts requested for it sum to more than 3; one worker asking
\* for the same resource several times is not contention.
C34_ContentionNeedsDistinctWorkers ==
    call.op = "detect_conflicts" =>
        /\ (ContentionConflicts # <<>>) <=>
               \E r \in Resources :
                   /\ Cardinality(WorkersRequesting(r)) > 1
                   /\ SeqSum([i \in DOMAIN RequestsFor(r) |-> RequestsFor(r)[i].amount])
                          > ContentionThreshold
        /\ \A c \in DOMAIN ContentionConflicts : ContentionConflicts[c].severity = "medium"

(***************************************************************************)
(* Escalation of the outputs the Orchestrator passes                       *)
(***************************************************************************)
\* Whether the output carries the keys _route_tasks always writes from an
\* AgentOutput: its confidence and both impacts, None where the worker set none.
RoutedShape(agent_output) ==
    {"confidence", "budget_impact", "headcount_impact"} \subseteq DOMAIN agent_output

\* C35: should_escalate returns a (bool, reason) pair, without raising, for every
\* worker output the Orchestrator can pass to it, outputs whose budget impact or
\* headcount impact is present but None and whose confidence is at least 0.60
\* included.
C35_ShouldEscalateNeverRaises ==
    (call.op = "should_escalate" /\ RoutedShape(call.agent_output)) =>
        /\ "raises" \notin DOMAIN ret
        /\ ret.escalate \in BOOLEAN

(***************************************************************************)
(* The alignment report after resolution                                   *)
(***************************************************************************)
\* C36: after detect_conflicts followed by resolve_conflicts, the ids listed as
\* unresolved by get_alignment_report are the ids of the conflicts that
\* resolve_conflicts returned as unresolved (an unresolved strategic_misalignment
\* among them).
C36_ReportListsUnresolved ==
    (call.op = "resolve_conflicts" /\ conflicts # <<>>) =>
        ListSet(AlignmentReport.unresolved)
            = {UnresolvedConflicts[k].conflict_id : k \in DOMAIN UnresolvedConflicts}

(***************************************************************************)
(* Pending approvals in the report and in the pending list                 *)
(***************************************************************************)
\* Decisions logged with their required approvers, approvals added, and the
\* report over the whole trail.
ReportNext ==
    \/ \E req \in RequiredLists :
          log_decision("finance_agent", "recommendation", "PROMPT-1", "d1", "r1", 85,
                       req, None)
    \/ \E id \in 1..MaxRecords, a \in {"CFO", "CEO"} : add_approval(id, a)
    \/ generate_report(None, None, None)

SpecReport == Init /\ [][ReportNext]_vars

\* C37: the pending-approval count of generate_report() without filters is the
\* number of records get_pending_approvals() returns in the same state, whatever
\* the required and obtained approvals of the records (some but not all of the
\* required approvals obtained included).
C37_ReportCountsPending ==
    (call.op = "generate_report" /\ "raises" \notin DOMAIN ret /\ RecordIds # <<>>) =>
        ret.pending_approvals = Len(PendingApprovals)

\* The entry of the evidence that _resolve_budget_conflict allocates: the first.
AllocatedDemand(conflict) == conflict.agent_recommendations.budget_conflicts[1]

\* The allocation the resolution of the conflict reports.
AllocationOf(conflict) == conflict.resolution_details[1].allocation

\* C38: in the allocation produced by _resolve_budget_conflict, for non-negative
\* request amounts and a non-negative available amount, the amounts allocated
\* sum to at most the available amount, each request appears exactly once, and no
\* request is allocated more than it asked for.
C38_AllocationWithinAvailable ==
    call.op = "resolve_conflicts" =>
        \A c \in DOMAIN BudgetConflicts :
            LET demand == AllocatedDemand(BudgetConflicts[c])
                allocation == AllocationOf(BudgetConflicts[c])
            IN /\ SeqSum([a \in DOMAIN allocation |-> allocation[a].amount])
                      <= demand.available
               /\ Len(allocation) = Len(demand.requests)
               /\ \A i \in DOMAIN demand.requests :
                      \E a \in DOMAIN allocation :
                          /\ allocation[a].agent = demand.requests[i].agent
                          /\ allocation[a].amount >= 0
                          /\ allocation[a].amount <= demand.requests[i].amount
                          /\ \A b \in DOMAIN allocation :
                                 allocation[b].agent = allocation[a].agent => b = a

\* A resolution that funded one request partly with what was available and left
\* nothing for the request after it.
C38_Witness ==
    /\ call.op = "resolve_conflicts"
    /\ BudgetConflicts # <<>>
    /\ Len(AllocationOf(BudgetConflicts[1])) = 2
    /\ AllocationOf(BudgetConflicts[1])[1].status = "partially_funded"
    /\ AllocationOf(BudgetConflicts[1])[1].amount > 0
    /\ AllocationOf(BudgetConflicts[1])[2].amount = 0

\* C39: when the evidence of a budget_overallocation conflict lists several
\* over-allocated departments, the resolution holds an allocation for the
\* requests of every listed department, each department's requests funded from
\* that department's own available amount.
C39_EveryDepartmentAllocated ==
    call.op = "resolve_conflicts" =>
        \A c \in DOMAIN BudgetConflicts :
            LET listed == BudgetConflicts[c].agent_recommendations.budget_conflicts
                allocation == AllocationOf(BudgetConflicts[c])
            IN \A d \in DOMAIN listed :
                   /\ \A i \in DOMAIN listed[d].requests :
                          \E a \in DOMAIN allocation :
                              allocation[a].agent = listed[d].requests[i].agent
                   /\ SeqSum([a \in DOMAIN allocation |->
                                 IF \E i \in DOMAIN listed[d].requests :
                                        listed[d].requests[i].agent = allocation[a].agent
                                 THEN allocation[a].amount ELSE 0])
                          <= listed[d].available

(***************************************************************************)
(* The Conflict Engine inside process_prompt                               *)
(***************************************************************************)
\* The keys of a worker output that detection reads.
ConflictKeys == {"budget_request", "timeline", "strategy", "resource_requests"}

\* A directive processed, and step 4 and step 5 of process_prompt on what
\* _route_tasks makes of the workers' outputs.
DirectiveNext ==
    \/ \E prompt \in Prompts : process_prompt(prompt)
    \/ \E outs \in PackageOutputs : detect_conflicts(outs, [budget_limits |-> EmptyMap])
    \/ resolve_detected

SpecDirective == Init /\ [][DirectiveNext]_vars

\* Step 4 on outputs without any key that detection reads finds no conflict, and
\* the alignment report is ALIGNED.
RoutedOutputsDetectNothing ==
    (/\ call.op = "detect_conflicts"
     /\ \A i \in DOMAIN agent_outputs : DOMAIN agent_outputs[i].output \cap ConflictKeys = {}) =>
        /\ ret = <<>>
        /\ AlignmentReport.status = "ALIGNED"

\* C40: inside process_prompt the outputs handed to the Conflict Engine are the
\* dicts _route_tasks builds, which carry none of budget_request, timeline,
\* strategy and resource_requests; so whatever budget and headcount impacts the
\* workers report, detect_conflicts returns no conflict, and process_prompt
\* returns a package whose alignment_status is ALIGNED.
C40_RoutedOutputsAligned ==
    /\ RoutedOutputsDetectNothing
    /\ call.op = "process_prompt" =>
           /\ "raises" \notin DOMAIN ret
           /\ ret.alignment_status = "ALIGNED"

====
